---- MODULE Spec2Model ----
(***************************************************************************)
(* Model of the routing and geolocation services of map.rs:                *)
(*   src/src/geolocation.rs  Location, GeolocationService                  *)
(*   src/src/routing.rs      RoutingService (calculate_route, geocode)     *)
(*   src/src/main_map.rs, src/src/main_simple.rs  the callers              *)
(*                                                                         *)
(* Numbers.  Coordinates are integers in 1e-4 degree (51.5074 is 515074),  *)
(* route and step distances are integers in centimetres, durations are     *)
(* integers in seconds.  Option<T> is a sequence of length 0 or 1.         *)
(***************************************************************************)
EXTENDS Integers, Sequences, FiniteSets, TLC

VARIABLES
    current_location,   \* GeolocationService.current_location : Option<Location>
    location_history,   \* GeolocationService.location_history : Vec<Location>
    now,                \* the system clock read by Location::new (unix seconds)
    updates,            \* history variable: every location passed to update_location, in call order
    route_call,         \* the calculate_route future: its position and its locals
    geocode_call,       \* the geocode future: its position and its locals
    crashed,            \* TRUE once a panic has taken the process down
    text_call,          \* the last call of a text function: its arguments and what it returned
    mutex,              \* the Mutex around the GeolocationService: the caller that holds it
    callers,            \* per caller of the store: its position in the handler and its locals
    use_miles_shared,   \* main_map.rs: use_miles : Arc<Mutex<bool>>, set by the units toggle
    route_request,      \* main_map.rs: the future spawned for a calculate_route message
    distance_call       \* the last call of Location::distance_to: its arguments and result

storeVars == <<current_location, location_history, updates>>

lockVars == <<mutex, callers>>

shellVars == <<use_miles_shared, route_request>>

vars == <<current_location, location_history, now, updates, route_call, geocode_call, crashed,
         text_call, mutex, callers, use_miles_shared, route_request, distance_call>>

----------------------------------------------------------------------------
(* Bounds *)

MaxTime == 1        \* the clock runs from 0 to MaxTime
MaxUpdates == 102   \* number of update_location calls explored
MaxWaypoints == 2   \* longest waypoint list passed to calculate_route
MaxRoutes == 2      \* most candidate routes in a routing response
MaxLegs == 2        \* most legs in a route
MaxSteps == 2       \* most steps in a leg
MaxResults == 2     \* most results in a geocoding response
MaxClicks == 2      \* most location fixes while a request of the shell is watched

----------------------------------------------------------------------------
(* Option<T> *)

None == <<>>

Some(x) == <<x>>

is_some(o) == o # <<>>

Min(a, b) == IF a < b THEN a ELSE b

----------------------------------------------------------------------------
(* geolocation.rs: Location *)

LocationNew(latitude, longitude, t) ==
    [latitude |-> latitude, longitude |-> longitude,
     accuracy |-> None, timestamp |-> Some(t)]

with_accuracy(location, accuracy) ==
    [location EXCEPT !.accuracy = Some(accuracy)]

\* The fix the location button reports: Location::new(51.5074, -0.1278).with_accuracy(10.0)
SimulatedFix(t) == with_accuracy(LocationNew(515074, -1278, t), 10)

----------------------------------------------------------------------------
(* geolocation.rs: GeolocationService *)

HistoryCap == 100

GeolocationServiceNew ==
    /\ current_location = None
    /\ location_history = <<>>

\* Mutants of update_location (plausible slips of the eviction code).
update_location_no_evict(location) ==
    /\ location_history' = Append(location_history, location)
    /\ current_location' = Some(location)

update_location_evict_newest(location) ==
    LET pushed == Append(location_history, location) IN
    /\ current_location' = Some(location)
    /\ location_history' = IF Len(pushed) > HistoryCap
                           THEN SubSeq(pushed, 1, Len(pushed) - 1)
                           ELSE pushed

update_location_evict_second(location) ==
    LET pushed == Append(location_history, location) IN
    /\ current_location' = Some(location)
    /\ location_history' = IF Len(pushed) > HistoryCap
                           THEN <<pushed[1]>> \o SubSeq(pushed, 3, Len(pushed))
                           ELSE pushed

update_location(location) ==
    LET pushed == Append(location_history, location) IN
    /\ current_location' = Some(location)
    /\ location_history' = IF Len(pushed) > HistoryCap THEN Tail(pushed) ELSE pushed

get_current_location_oldest ==
    IF location_history = <<>> THEN None ELSE Some(Head(location_history))

get_current_location == current_location

get_location_history == location_history

----------------------------------------------------------------------------
(* Location::distance_to, in fixed point: angles in 1e-4 radian, sines and  *)
(* cosines in 1e-4, the haversine term in 1e-8, the distance in metres.     *)
(* Every operation rounds to nearest symmetrically about zero, as the       *)
(* floating-point operations of the code do.                                *)

Unit == 10000

Pi == 31416

HalfPi == 15708

\* a / b to the nearest integer, symmetric about zero (b > 0).
RoundDiv(a, b) ==
    IF a >= 0 THEN (a + (b \div 2)) \div b ELSE 0 - (((0 - a) + (b \div 2)) \div b)

\* f64::to_radians of an angle in 1e-4 degree (pi / 180 = 0.01745).
to_radians(deg) == RoundDiv(deg * 349, 20000)

\* The series of sine and cosine on [0, pi/4].
SinSeries(x) ==
    LET x2 == RoundDiv(x * x, Unit)
        x3 == RoundDiv(x * x2, Unit)
        x5 == RoundDiv(x3 * x2, Unit)
        x7 == RoundDiv(x5 * x2, Unit)
    IN  x - RoundDiv(x3, 6) + RoundDiv(x5, 120) - RoundDiv(x7, 5040)

CosSeries(x) ==
    LET x2 == RoundDiv(x * x, Unit)
        x4 == RoundDiv(x2 * x2, Unit)
        x6 == RoundDiv(x4 * x2, Unit)
    IN  Unit - RoundDiv(x2, 2) + RoundDiv(x4, 24) - RoundDiv(x6, 720)

\* f64::sin on [-pi, pi]
Sin(x) ==
    LET m == IF x < 0 THEN 0 - x ELSE x
        r == IF m > HalfPi THEN Pi - m ELSE m
        s == IF 2 * r > HalfPi THEN CosSeries(HalfPi - r) ELSE SinSeries(r)
    IN  IF x < 0 THEN 0 - s ELSE s

\* f64::cos on [-pi, pi]
Cos(x) ==
    LET m == IF x < 0 THEN 0 - x ELSE x
        r == IF m > HalfPi THEN Pi - m ELSE m
        c == IF 2 * r > HalfPi THEN SinSeries(HalfPi - r) ELSE CosSeries(r)
    IN  IF m > HalfPi THEN 0 - c ELSE c

\* f64::sqrt of a value in 1e-8, the root in 1e-4.
RECURSIVE SqrtBetween(_, _, _)
SqrtBetween(n, lo, hi) ==
    IF lo >= hi THEN lo
    ELSE LET mid == (lo + hi + 1) \div 2 IN
         IF mid * mid <= n THEN SqrtBetween(n, mid, hi) ELSE SqrtBetween(n, lo, mid - 1)

sqrt(n) == SqrtBetween(n, 0, Unit)

\* atan of a ratio t in [0, 1] (1e-4): t / (1 + 0.28 t^2)
AtanRatio(t) == RoundDiv(t * Unit, Unit + RoundDiv(28 * RoundDiv(t * t, Unit), 100))

\* f64::atan2(y, x) for y >= 0 and x >= 0
atan2(y, x) ==
    IF y = 0 THEN 0
    ELSE IF y <= x THEN AtanRatio(RoundDiv(y * Unit, x))
    ELSE HalfPi - AtanRatio(RoundDiv(x * Unit, y))

\* p * q for p in 1e-4 and q in 1e-8, the product in 1e-8.
Scale(p, q) == p * (q \div Unit) + RoundDiv(p * (q % Unit), Unit)

\* Mutant of distance_to: the cosine of the own latitude is used twice.
distance_to_own_cosine(self, other) ==
    LET lat1 == to_radians(self.latitude)
        lat2 == to_radians(other.latitude)
        delta_lat == to_radians(other.latitude - self.latitude)
        delta_lon == to_radians(other.longitude - self.longitude)
        sin_lat == Sin(RoundDiv(delta_lat, 2))
        sin_lon == Sin(RoundDiv(delta_lon, 2))
        a == sin_lat * sin_lat
               + Scale(RoundDiv(Cos(lat1) * Cos(lat1), Unit), sin_lon * sin_lon)
        c == 2 * atan2(sqrt(a), sqrt(Unit * Unit - a))
    IN  RoundDiv(6371 * c, 10)

\* geolocation.rs:46-57: haversine, Earth radius 6371000 m; metres.
distance_to(self, other) ==
    LET lat1 == to_radians(self.latitude)
        lat2 == to_radians(other.latitude)
        delta_lat == to_radians(other.latitude - self.latitude)
        delta_lon == to_radians(other.longitude - self.longitude)
        sin_lat == Sin(RoundDiv(delta_lat, 2))
        sin_lon == Sin(RoundDiv(delta_lon, 2))
        a == sin_lat * sin_lat
               + Scale(RoundDiv(Cos(lat1) * Cos(lat2), Unit), sin_lon * sin_lon)
        c == 2 * atan2(sqrt(a), sqrt(Unit * Unit - a))
    IN  RoundDiv(6371 * c, 10)

----------------------------------------------------------------------------

(* Numbers and text, as Rust computes and prints them *)

\* Rust's % on numbers: the remainder takes the sign of the dividend.
Rem(a, b) == IF a >= 0 THEN a % b ELSE 0 - ((0 - a) % b)

\* n / d rounded to the nearest integer, ties to even (n >= 0, d > 0): the
\* rounding of format!("{:.N}", x) on the exact decimal value of x.
RoundHalfEven(n, d) ==
    LET q == n \div d
        r == n % d
    IN  IF 2 * r < d THEN q
        ELSE IF 2 * r > d THEN q + 1
        ELSE IF q % 2 = 0 THEN q ELSE q + 1

\* format!("{:.1}", x) for x = tenths / 10, tenths >= 0
FmtTenths(tenths) == ToString(tenths \div 10) \o "." \o ToString(tenths % 10)

\* tenths of a mile in cm centimetres, meters * 0.000621371 rounded to one
\* decimal; the product cm * 621371 is split to stay inside 32 bits.
MilesTenths(cm) ==
    LET a == cm * 621
        b == cm * 371
    IN  (a + (b \div 1000) + 5000000) \div 10000000

\* Mutant of format_distance: exactly 1000 m is still printed in metres.
format_distance_above_1000(cm, use_miles) ==
    IF use_miles
    THEN FmtTenths(MilesTenths(cm)) \o " mi"
    ELSE IF cm > 100000
         THEN FmtTenths(RoundHalfEven(cm, 10000)) \o " km"
         ELSE ToString(RoundHalfEven(cm, 100)) \o " m"

\* Lines 207-218.  The {:.1} of meters / 1000.0 is computed on the decimal
\* value: a distance exactly half-way between two tenths of a kilometre
\* (1050 m) follows the binary value in Rust; the sets below hold none.
format_distance(cm, use_miles) ==
    IF use_miles
    THEN FmtTenths(MilesTenths(cm)) \o " mi"
    ELSE IF cm >= 100000
         THEN FmtTenths(RoundHalfEven(cm, 10000)) \o " km"
         ELSE ToString(RoundHalfEven(cm, 100)) \o " m"

\* Mutant of bearing_to_direction: the bearing is reduced by % 360 alone.
bearing_to_direction_one_rem(bearing) ==
    IF bearing = None THEN "straight"
    ELSE LET normalized == Rem(bearing[1], 3600) IN
         IF normalized < 225 \/ normalized >= 3375 THEN "north"
         ELSE IF normalized < 675 THEN "northeast"
         ELSE IF normalized < 1125 THEN "east"
         ELSE IF normalized < 1575 THEN "southeast"
         ELSE IF normalized < 2025 THEN "south"
         ELSE IF normalized < 2475 THEN "southwest"
         ELSE IF normalized < 2925 THEN "west"
         ELSE "northwest"

\* bearing in tenths of a degree
bearing_to_direction(bearing) ==
    IF bearing = None THEN "straight"
    ELSE LET normalized == Rem(Rem(bearing[1], 3600) + 3600, 3600) IN
         IF normalized < 225 \/ normalized >= 3375 THEN "north"
         ELSE IF normalized < 675 THEN "northeast"
         ELSE IF normalized < 1125 THEN "east"
         ELSE IF normalized < 1575 THEN "southeast"
         ELSE IF normalized < 2025 THEN "south"
         ELSE IF normalized < 2475 THEN "southwest"
         ELSE IF normalized < 2925 THEN "west"
         ELSE "northwest"

\* o.unwrap_or(d)
unwrap_or(o, d) == IF o = None THEN d ELSE o[1]

\* s.starts_with(p)
starts_with(s, p) == Len(s) >= Len(p) /\ SubSeq(s, 1, Len(p)) = p

\* s.replace(from, to): every non-overlapping match, left to right
RECURSIVE replace(_, _, _)
replace(s, from, to) ==
    IF Len(s) = 0 THEN ""
    ELSE IF starts_with(s, from)
         THEN to \o replace(SubSeq(s, Len(from) + 1, Len(s)), from, to)
         ELSE SubSeq(s, 1, 1) \o replace(SubSeq(s, 2, Len(s)), from, to)

----------------------------------------------------------------------------
(* routing.rs: instruction text *)

\* Mutant of the default kind: a step without a kind is taken for a turn.
ManeuverType_default_turn(step) == unwrap_or(step.maneuver.maneuver_type, "turn")

\* Line 119: the maneuver kind, "continue" when the step carries none.
ManeuverType(step) == unwrap_or(step.maneuver.maneuver_type, "continue")

\* Mutant of the street name part: the reference alone is forgotten.
StreetInfo_no_ref_only(name, ref_) ==
    LET road_name == unwrap_or(name, "")
        road_ref == ref_
    IN  IF road_name # ""
        THEN IF road_ref # None
             THEN "on " \o road_name \o " (" \o road_ref[1] \o ")"
             ELSE "on " \o road_name
        ELSE ""

\* Lines 121-138: the street name part; a name that is absent or empty
\* counts as no name.
StreetInfo(name, ref_) ==
    LET road_name == unwrap_or(name, "")
        road_ref == ref_
    IN  IF road_name # ""
        THEN IF road_ref # None
             THEN "on " \o road_name \o " (" \o road_ref[1] \o ")"
             ELSE "on " \o road_name
        ELSE IF road_ref # None
             THEN "on " \o road_ref[1]
             ELSE ""

\* Mutant of "depart": a step without a bearing heads north.
DepartText_north_default(bearing_after, street_info, distance_text) ==
    LET direction == IF bearing_after = None THEN "north"
                     ELSE bearing_to_direction(bearing_after) IN
    IF street_info = ""
    THEN "Head " \o direction \o " for " \o distance_text
    ELSE "Head " \o direction \o " " \o street_info \o " for " \o distance_text

\* Lines 142-153: "depart"
DepartText(bearing_after, street_info, distance_text) ==
    IF street_info = ""
    THEN "Head " \o bearing_to_direction(bearing_after) \o " for " \o distance_text
    ELSE "Head " \o bearing_to_direction(bearing_after) \o " " \o street_info
             \o " for " \o distance_text

\* Mutant of "turn": one template, whether there is a street or not.
TurnText_one_template(modifier, street_info, distance_text) ==
    LET direction == replace(unwrap_or(modifier, ""), "sharp ", "sharp ") IN
    "Turn " \o direction \o " " \o street_info \o " for " \o distance_text

\* Lines 154-161: "turn"
TurnText(modifier, street_info, distance_text) ==
    LET direction == replace(unwrap_or(modifier, ""), "sharp ", "sharp ") IN
    IF street_info = ""
    THEN "Turn " \o direction \o " for " \o distance_text
    ELSE "Turn " \o direction \o " " \o street_info \o " for " \o distance_text

\* Mutant of "merge": the modifier is printed as given.
MergeText_modifier_as_given(modifier, street_info, distance_text) ==
    LET direction == unwrap_or(modifier, "") IN
    IF street_info = ""
    THEN "Merge " \o direction \o " for " \o distance_text
    ELSE "Merge " \o direction \o " " \o street_info \o " for " \o distance_text

\* Lines 162-169: "merge"
MergeText(modifier, street_info, distance_text) ==
    LET direction == replace(unwrap_or(modifier, ""), "slight ", "") IN
    IF street_info = ""
    THEN "Merge " \o direction \o " for " \o distance_text
    ELSE "Merge " \o direction \o " " \o street_info \o " for " \o distance_text

\* Lines 170-177: "ramp"
RampText(modifier, street_info, distance_text) ==
    LET direction == replace(unwrap_or(modifier, ""), "slight ", "") IN
    IF street_info = ""
    THEN "Take the ramp " \o direction \o " for " \o distance_text
    ELSE "Take the ramp " \o direction \o " " \o street_info \o " for " \o distance_text

\* Mutant of "fork": no default side.
ForkText_no_default(modifier, street_info, distance_text) ==
    LET direction == unwrap_or(modifier, "") IN
    IF street_info = ""
    THEN "Keep " \o direction \o " at the fork for " \o distance_text
    ELSE "Keep " \o direction \o " at the fork " \o street_info \o " for " \o distance_text

\* Lines 178-185: "fork"
ForkText(modifier, street_info, distance_text) ==
    LET direction == unwrap_or(modifier, "left") IN
    IF street_info = ""
    THEN "Keep " \o direction \o " at the fork for " \o distance_text
    ELSE "Keep " \o direction \o " at the fork " \o street_info \o " for " \o distance_text

\* Mutant of "roundabout": no distance when there is no street.
RoundaboutText_alone(street_info, distance_text) ==
    IF street_info = ""
    THEN "Enter the roundabout"
    ELSE "Enter the roundabout and take " \o street_info \o " for " \o distance_text

\* Lines 186-192: "roundabout"
RoundaboutText(street_info, distance_text) ==
    IF street_info = ""
    THEN "Enter the roundabout for " \o distance_text
    ELSE "Enter the roundabout and take " \o street_info \o " for " \o distance_text

\* Mutant of "arrive": another sentence.
ArriveText_you_have == "You have arrived at your destination"

\* Lines 193-195: "arrive"
ArriveText == "Arrive at your destination"

\* Lines 196-203: "continue" and every other kind
ContinueText(street_info, distance_text) ==
    IF street_info = ""
    THEN "Continue for " \o distance_text
    ELSE "Continue " \o street_info \o " for " \o distance_text

generate_instruction_text(step, use_miles) ==
    LET maneuver_type == ManeuverType(step)
        modifier == step.maneuver.modifier
        distance_text == format_distance(step.distance, use_miles)
        street_info == StreetInfo(step.name, step.ref_)
    IN  CASE maneuver_type = "depart" ->
               DepartText(step.maneuver.bearing_after, street_info, distance_text)
          [] maneuver_type = "turn" -> TurnText(modifier, street_info, distance_text)
          [] maneuver_type = "merge" -> MergeText(modifier, street_info, distance_text)
          [] maneuver_type = "ramp" -> RampText(modifier, street_info, distance_text)
          [] maneuver_type = "fork" -> ForkText(modifier, street_info, distance_text)
          [] maneuver_type = "roundabout" -> RoundaboutText(street_info, distance_text)
          [] maneuver_type = "arrive" -> ArriveText
          [] OTHER -> ContinueText(street_info, distance_text)

\* Mutant of the RouteInstruction: the [lng, lat] pair is read as [lat, lng].
RouteInstruction_lat_first(step, use_miles, t) ==
    [text |-> generate_instruction_text(step, use_miles),
     distance |-> step.distance,
     duration |-> step.duration,
     location |-> LocationNew(step.maneuver.location[1], step.maneuver.location[2], t)]

\* The RouteInstruction pushed for one step; t is the clock Location::new
\* reads (the loops run without suspension, the clock is read once for them).
RouteInstruction(step, use_miles, t) ==
    [text |-> generate_instruction_text(step, use_miles),
     distance |-> step.distance,
     duration |-> step.duration,
     location |-> LocationNew(step.maneuver.location[2], step.maneuver.location[1], t)]

\* Mutant of the inner loop of parse_instructions: insert at the front.
RECURSIVE parse_steps_prepend(_, _, _, _)
parse_steps_prepend(steps, use_miles, t, instructions) ==
    IF steps = <<>> THEN instructions
    ELSE parse_steps_prepend(Tail(steps), use_miles, t,
             <<RouteInstruction(Head(steps), use_miles, t)>> \o instructions)

\* for step in &leg.steps { instructions.push(..) }
RECURSIVE parse_steps(_, _, _, _)
parse_steps(steps, use_miles, t, instructions) ==
    IF steps = <<>> THEN instructions
    ELSE parse_steps(Tail(steps), use_miles, t,
             Append(instructions, RouteInstruction(Head(steps), use_miles, t)))

\* for leg in legs { .. }
RECURSIVE parse_legs(_, _, _, _)
parse_legs(legs, use_miles, t, instructions) ==
    IF legs = <<>> THEN instructions
    ELSE parse_legs(Tail(legs), use_miles, t,
             parse_steps(Head(legs).steps, use_miles, t, instructions))

parse_instructions(legs, use_miles, t) == parse_legs(legs, use_miles, t, <<>>)

----------------------------------------------------------------------------
(* Result<T, Box<dyn Error>> and the panic of an unwrap *)

Ok(v) == <<"Ok", v>>

Err(e) == <<"Err", e>>

is_ok(r) == r[1] = "Ok"

is_err(r) == r[1] = "Err"

\* Sequences over S of length at most n.
SeqsUpTo(S, n) == UNION {[1..k -> S] : k \in 0..n}

RECURSIVE join(_, _)
join(strs, sep) ==
    IF strs = <<>> THEN ""
    ELSE IF Len(strs) = 1 THEN strs[1]
    ELSE strs[1] \o sep \o join(Tail(strs), sep)

\* The decimal digits of frac / 10000 without trailing zeros (at least one).
FracDigits(frac) ==
    LET d == SubSeq(ToString(10000 + frac), 2, 5) IN
    IF frac % 1000 = 0 THEN SubSeq(d, 1, 1)
    ELSE IF frac % 100 = 0 THEN SubSeq(d, 1, 2)
    ELSE IF frac % 10 = 0 THEN SubSeq(d, 1, 3)
    ELSE d

Abs(v) == IF v < 0 THEN 0 - v ELSE v

\* format!("{}", x) of the f64 x = v / 10000
FmtDisplay(v) ==
    (IF v < 0 THEN "-" ELSE "") \o ToString(Abs(v) \div 10000)
        \o (IF Abs(v) % 10000 = 0 THEN "" ELSE "." \o FracDigits(Abs(v) % 10000))

\* serde_json's text of the f64 x = v / 10000 (a whole number keeps ".0")
FmtJson(v) ==
    (IF v < 0 THEN "-" ELSE "") \o ToString(Abs(v) \div 10000)
        \o "." \o FracDigits(Abs(v) % 10000)

----------------------------------------------------------------------------
(* routing.rs: the routing provider's payload and its decoding *)

\* Option<T> field of a serde struct: Some when the key is present.
Field(obj, key) == IF key \in DOMAIN obj THEN Some(obj[key]) ELSE None

\* #[derive(Deserialize)] OSRMManeuver: "type" is renamed, the others keep their names.
DecodeOSRMManeuver(json) ==
    [location |-> json.location,
     maneuver_type |-> Field(json, "type"),
     modifier |-> Field(json, "modifier"),
     bearing_after |-> Field(json, "bearing_after")]

\* #[derive(Deserialize)] OSRMStep: the field ref_ reads the key "ref_".
DecodeOSRMStep(json) ==
    [distance |-> json.distance,
     duration |-> json.duration,
     maneuver |-> DecodeOSRMManeuver(json.maneuver),
     name |-> Field(json, "name"),
     ref_ |-> Field(json, "ref_")]

DecodeOSRMLeg(json) ==
    [distance |-> json.distance,
     duration |-> json.duration,
     steps |-> [i \in 1..Len(json.steps) |-> DecodeOSRMStep(json.steps[i])]]

DecodeOSRMRoute(json) ==
    [distance |-> json.distance,
     duration |-> json.duration,
     geometry |-> json.geometry,
     legs |-> [i \in 1..Len(json.legs) |-> DecodeOSRMLeg(json.legs[i])]]

\* response.json::<OSRMResponse>(): an object without "routes" does not decode.
DecodeOSRMResponse(body) ==
    IF "routes" \in DOMAIN body
    THEN Ok([routes |-> [i \in 1..Len(body.routes) |-> DecodeOSRMRoute(body.routes[i])]])
    ELSE Err("reqwest::Error { kind: Decode }")

\* serde_json::to_string(&route.geometry) of a GeoJSON LineString
GeometryToString(geometry) ==
    LET Position(p) == "[" \o FmtJson(p[1]) \o "," \o FmtJson(p[2]) \o "]" IN
    "{\"coordinates\":[" \o join([i \in 1..Len(geometry.coordinates) |-> Position(geometry.coordinates[i])], ",")
        \o "],\"type\":\"" \o geometry.type \o "\"}"

\* Steps a provider may send (maneuver.location is [lng, lat]).
WireSteps ==
    { [distance |-> 50000, duration |-> 60, name |-> "High Street", ref |-> "A40",
       maneuver |-> [location |-> <<-1278, 515074>>, type |-> "depart",
                     bearing_after |-> 900, bearing_before |-> 0]],
      [distance |-> 150000, duration |-> 120, name |-> "",
       maneuver |-> [location |-> <<-1245, 514994>>, type |-> "turn",
                     modifier |-> "left", bearing_after |-> 1800,
                     bearing_before |-> 900]] }

RECURSIVE SumOf(_, _)
SumOf(s, field) == IF s = <<>> THEN 0 ELSE Head(s)[field] + SumOf(Tail(s), field)

RECURSIVE Concat(_)
Concat(ss) == IF ss = <<>> THEN <<>> ELSE Head(ss) \o Concat(Tail(ss))

WireLeg(steps) ==
    [distance |-> SumOf(steps, "distance"), duration |-> SumOf(steps, "duration"),
     steps |-> steps]

WireRoute(legs) ==
    LET StepLocation(step) == step.maneuver.location
        LegLocations(leg) == [i \in 1..Len(leg.steps) |-> StepLocation(leg.steps[i])]
    IN  [distance |-> SumOf(legs, "distance"), duration |-> SumOf(legs, "duration"),
         geometry |-> [type |-> "LineString",
                       coordinates |-> Concat([i \in 1..Len(legs) |-> LegLocations(legs[i])])],
         legs |-> legs]

WireLegs == {WireLeg(steps) : steps \in SeqsUpTo(WireSteps, MaxSteps)}

WireRoutes == {WireRoute(legs) : legs \in SeqsUpTo(WireLegs, MaxLegs)}

\* Lower-ranked candidates a provider may add after the best route.
WireAlternatives ==
    { WireRoute(<<>>),
      WireRoute(<<WireLeg(<<CHOOSE step \in WireSteps : step.maneuver.type = "turn">>)>>) }

\* Bodies of the routing provider: an error object, or {code, routes}.
RouteBodies ==
    {[code |-> "InvalidQuery", message |-> "Query string malformed"]}
    \cup {[code |-> "Ok", routes |-> <<>>]}
    \cup {[code |-> "Ok", routes |-> <<first>> \o rest] :
             first \in WireRoutes, rest \in SeqsUpTo(WireAlternatives, MaxRoutes - 1)}

Statuses == {200, 400, 500}

\* StatusCode::is_success
is_success(status) == 200 <= status /\ status < 300

\* format!("{}", StatusCode): the code and its canonical reason
StatusText(status) ==
    ToString(status) \o " " \o
        (CASE status = 200 -> "OK"
           [] status = 400 -> "Bad Request"
           [] status = 500 -> "Internal Server Error"
           [] OTHER -> "<unknown status code>")

----------------------------------------------------------------------------
(* routing.rs: RoutingService::calculate_route *)

osm_api_base == "https://router.project-osrm.org"

WaypointPool ==
    { [lat |-> 515074, lng |-> -1278, name |-> Some("Current Location")],
      [lat |-> 514994, lng |-> -1245, name |-> Some("Big Ben, London")] }

IdleRoute ==
    [pc |-> "idle", waypoints |-> <<>>, use_miles |-> FALSE, url |-> None,
     status |-> None, body |-> None, decoded |-> FALSE, result |-> None]

RouteUrl(waypoints) ==
    LET Coordinate(wp) == FmtDisplay(wp.lng) \o "," \o FmtDisplay(wp.lat)
        coordinates_str == join([i \in 1..Len(waypoints) |-> Coordinate(waypoints[i])], ";")
    IN  osm_api_base \o "/route/v1/driving/" \o coordinates_str
            \o "?overview=full&geometries=geojson&steps=true&annotations=true&continue_straight=true"

\* Mutant of the entry check: one waypoint is let through.
CalculateRoute_min_one(waypoints, use_miles) ==
    /\ ~crashed
    /\ route_call.pc = "idle"
    /\ route_call' =
         IF Len(waypoints) < 1
         THEN [IdleRoute EXCEPT !.pc = "done", !.waypoints = waypoints,
                               !.use_miles = use_miles,
                               !.result = Some(Err("At least 2 waypoints are required"))]
         ELSE [IdleRoute EXCEPT !.pc = "send", !.waypoints = waypoints,
                               !.use_miles = use_miles,
                               !.url = Some(RouteUrl(waypoints))]
    /\ UNCHANGED <<lockVars, shellVars, distance_call, text_call, storeVars, now, geocode_call, crashed>>

\* Lines 53-73: the entry check, the URL, and the request up to send().await.
CalculateRoute(waypoints, use_miles) ==
    /\ ~crashed
    /\ route_call.pc = "idle"
    /\ route_call' =
         IF Len(waypoints) < 2
         THEN [IdleRoute EXCEPT !.pc = "done", !.waypoints = waypoints,
                               !.use_miles = use_miles,
                               !.result = Some(Err("At least 2 waypoints are required"))]
         ELSE [IdleRoute EXCEPT !.pc = "send", !.waypoints = waypoints,
                               !.use_miles = use_miles,
                               !.url = Some(RouteUrl(waypoints))]
    /\ UNCHANGED <<lockVars, shellVars, distance_call, text_call, storeVars, now, geocode_call, crashed>>

\* Line 73: send().await? fails (no connection, DNS, TLS).
RouteSendFailed ==
    /\ ~crashed
    /\ route_call.pc = "send"
    /\ route_call' = [route_call EXCEPT !.pc = "done",
                         !.result = Some(Err("reqwest::Error { kind: Request }"))]
    /\ UNCHANGED <<lockVars, shellVars, distance_call, text_call, storeVars, now, geocode_call, crashed>>

\* Mutant of the status check: every status is taken for a success.
RouteResponse_no_status_check(status) ==
    /\ ~crashed
    /\ route_call.pc = "send"
    /\ route_call' = [route_call EXCEPT !.pc = "json", !.status = Some(status)]
    /\ UNCHANGED <<lockVars, shellVars, distance_call, text_call, storeVars, now, geocode_call, crashed>>

\* Lines 73-79: the response head arrives; the status check; up to json().await.
RouteResponse(status) ==
    /\ ~crashed
    /\ route_call.pc = "send"
    /\ route_call' =
         IF ~is_success(status)
         THEN [route_call EXCEPT !.pc = "done", !.status = Some(status),
                  !.result = Some(Err("Routing API error: " \o StatusText(status)))]
         ELSE [route_call EXCEPT !.pc = "json", !.status = Some(status)]
    /\ UNCHANGED <<lockVars, shellVars, distance_call, text_call, storeVars, now, geocode_call, crashed>>

\* Mutant of the RouteResponse: built from the last candidate.
BuildRouteResponse_last_candidate(osrm_response, use_miles, t) ==
    LET route == osrm_response.routes[Len(osrm_response.routes)] IN
    [distance |-> route.distance,
     duration |-> route.duration,
     geometry |-> GeometryToString(route.geometry),
     instructions |-> parse_instructions(route.legs, use_miles, t)]

\* Lines 85-93: the RouteResponse built from the first candidate.
BuildRouteResponse(osrm_response, use_miles, t) ==
    LET route == osrm_response.routes[1] IN
    [distance |-> route.distance,
     duration |-> route.duration,
     geometry |-> GeometryToString(route.geometry),
     instructions |-> parse_instructions(route.legs, use_miles, t)]

\* Mutant of the empty check: an empty routes array yields an empty route.
RouteOutcome_no_empty_check(body, use_miles, t) ==
    LET decoded == DecodeOSRMResponse(body) IN
    IF is_err(decoded) THEN decoded
    ELSE IF decoded[2].routes = <<>>
         THEN Ok([distance |-> 0, duration |-> 0, geometry |-> "", instructions |-> <<>>])
         ELSE Ok(BuildRouteResponse(decoded[2], use_miles, t))

\* Lines 79-93: what calculate_route returns once the body has been read.
RouteOutcome(body, use_miles, t) ==
    LET decoded == DecodeOSRMResponse(body) IN
    IF is_err(decoded) THEN decoded
    ELSE IF decoded[2].routes = <<>> THEN Err("No route found")
    ELSE Ok(BuildRouteResponse(decoded[2], use_miles, t))

\* Mutant of the last step of calculate_route: the start of the route is
\* recorded in the store.
RouteBody_updates_store(body) ==
    /\ ~crashed
    /\ route_call.pc = "json"
    /\ route_call' = [route_call EXCEPT !.pc = "done", !.body = Some(body),
                         !.decoded = TRUE,
                         !.result = Some(RouteOutcome(body, route_call.use_miles, now))]
    /\ update_location(SimulatedFix(now))
    /\ UNCHANGED <<lockVars, shellVars, distance_call, text_call, updates, now, geocode_call,
                   crashed>>

\* Lines 79-93: the body arrives and is decoded; the result is built.
RouteBody(body) ==
    /\ ~crashed
    /\ route_call.pc = "json"
    /\ route_call' = [route_call EXCEPT !.pc = "done", !.body = Some(body),
                         !.decoded = TRUE,
                         !.result = Some(RouteOutcome(body, route_call.use_miles, now))]
    /\ UNCHANGED <<lockVars, shellVars, distance_call, text_call, storeVars, now, geocode_call, crashed>>

\* Line 79: json().await? fails while the body is read (connection lost).
RouteBodyFailed ==
    /\ ~crashed
    /\ route_call.pc = "json"
    /\ route_call' = [route_call EXCEPT !.pc = "done", !.decoded = TRUE,
                         !.result = Some(Err("reqwest::Error { kind: Body }"))]
    /\ UNCHANGED <<lockVars, shellVars, distance_call, text_call, storeVars, now, geocode_call, crashed>>

----------------------------------------------------------------------------
(* routing.rs: RoutingService::geocode *)

\* The value of a decimal digit, -1 for any other character.
Digit(c) ==
    CASE c = "0" -> 0 [] c = "1" -> 1 [] c = "2" -> 2 [] c = "3" -> 3 [] c = "4" -> 4
      [] c = "5" -> 5 [] c = "6" -> 6 [] c = "7" -> 7 [] c = "8" -> 8 [] c = "9" -> 9
      [] OTHER -> -1

\* The number written by the digits of s after acc, -1 when s has another character.
RECURSIVE ParseDigits(_, _)
ParseDigits(s, acc) ==
    IF Len(s) = 0 THEN acc
    ELSE IF Digit(SubSeq(s, 1, 1)) < 0 THEN -1
    ELSE ParseDigits(SubSeq(s, 2, Len(s)), 10 * acc + Digit(SubSeq(s, 1, 1)))

\* Position of the first c in s, Len(s) + 1 when there is none.
RECURSIVE Find(_, _)
Find(s, c) ==
    IF Len(s) = 0 THEN 1
    ELSE IF SubSeq(s, 1, 1) = c THEN 1
    ELSE 1 + Find(SubSeq(s, 2, Len(s)), c)

\* str::parse::<f64>() for decimal strings (no exponent, inf or nan): an
\* optional sign, digits, an optional point and digits, at least one digit.
\* The value is kept to 1e-4.
ParseF64(s) ==
    LET unsigned == IF starts_with(s, "-") \/ starts_with(s, "+")
                    THEN SubSeq(s, 2, Len(s)) ELSE s
        dot == Find(unsigned, ".")
        int_digits == SubSeq(unsigned, 1, dot - 1)
        frac_digits == SubSeq(unsigned, dot + 1, Len(unsigned))
        frac4 == SubSeq(frac_digits \o "0000", 1, 4)
        int_value == ParseDigits(int_digits, 0)
        frac_value == ParseDigits(frac4, 0)
        magnitude == 10000 * int_value + frac_value
    IN  IF Len(s) = 0 THEN Err("cannot parse float from empty string")
        ELSE IF \/ Len(int_digits) + Len(frac_digits) = 0
                \/ int_value < 0
                \/ ParseDigits(frac_digits, 0) < 0
        THEN Err("invalid float literal")
        ELSE Ok(IF starts_with(s, "-") THEN 0 - magnitude ELSE magnitude)

\* urlencoding::encode, one character: the reserved characters of the
\* queries below are escaped, letters and digits pass.
EncodeChar(c) ==
    CASE c = " " -> "%20" [] c = "," -> "%2C" [] c = "&" -> "%26" [] c = "?" -> "%3F"
      [] c = "/" -> "%2F" [] c = "#" -> "%23" [] c = "=" -> "%3D" [] c = "+" -> "%2B"
      [] c = "%" -> "%25"
      [] OTHER -> c

RECURSIVE urlencode(_)
urlencode(s) ==
    IF Len(s) = 0 THEN ""
    ELSE EncodeChar(SubSeq(s, 1, 1)) \o urlencode(SubSeq(s, 2, Len(s)))

GeocodeUrl(query) ==
    "https://nominatim.openstreetmap.org/search?format=json&q=" \o urlencode(query)

Queries == {"Big Ben", "10 Downing St, London"}

LatStrings == {"51.5074", "abc"}

LonStrings == {"-0.1278", ""}

\* Results a geocoding provider may send.
WireResults ==
    {[lat |-> lat, lon |-> lon, display_name |-> "London, Greater London, England",
      place_id |-> 1] : lat \in LatStrings, lon \in LonStrings}

\* Bodies of the geocoding provider: an error object, or an array of results.
GeocodeBodies ==
    {[json |-> "object", error |-> "Unable to geocode"]}
    \cup {[json |-> "array", items |-> items] : items \in SeqsUpTo(WireResults, MaxResults)}

\* #[derive(Deserialize)] NominatimResult
DecodeNominatimResult(json) ==
    [lat |-> json.lat, lon |-> json.lon, display_name |-> json.display_name]

\* response.json::<Vec<NominatimResult>>(): only an array decodes.
DecodeNominatimResults(body) ==
    IF body.json = "array"
    THEN Ok([i \in 1..Len(body.items) |-> DecodeNominatimResult(body.items[i])])
    ELSE Err("reqwest::Error { kind: Decode }")

Panic(message) == <<"Panic", message>>

is_panic(r) == r[1] = "Panic"

IdleGeocode ==
    [pc |-> "idle", query |-> "", url |-> None, user_agent |-> None,
     status |-> None, body |-> None, result |-> None]

\* Mutant of the result mapping: no result is taken for a failure.
GeocodeOutcome_empty_is_error(body, t) ==
    LET decoded == DecodeNominatimResults(body) IN
    IF is_err(decoded) THEN decoded
    ELSE IF decoded[2] = <<>> THEN Err("No results found")
    ELSE LET results == decoded[2]
             Bad(result) == is_err(ParseF64(result.lat)) \/ is_err(ParseF64(result.lon))
             ToLocation(result) ==
                 LocationNew(ParseF64(result.lat)[2], ParseF64(result.lon)[2], t)
         IN  IF \E i \in 1..Len(results) : Bad(results[i])
             THEN Panic("called Result::unwrap() on an Err value: ParseFloatError")
             ELSE Ok([i \in 1..Len(results) |-> ToLocation(results[i])])

\* Lines 253-258: what geocode does once the body has been read: the decode
\* error is returned, a lat or lon that does not parse panics in unwrap().
GeocodeOutcome(body, t) ==
    LET decoded == DecodeNominatimResults(body) IN
    IF is_err(decoded) THEN decoded
    ELSE LET results == decoded[2]
             Bad(result) == is_err(ParseF64(result.lat)) \/ is_err(ParseF64(result.lon))
             ToLocation(result) ==
                 LocationNew(ParseF64(result.lat)[2], ParseF64(result.lon)[2], t)
         IN  IF \E i \in 1..Len(results) : Bad(results[i])
             THEN Panic("called Result::unwrap() on an Err value: ParseFloatError")
             ELSE Ok([i \in 1..Len(results) |-> ToLocation(results[i])])

\* Lines 239-251: the URL and the request up to send().await.
Geocode(query) ==
    /\ ~crashed
    /\ geocode_call.pc = "idle"
    /\ geocode_call' = [IdleGeocode EXCEPT !.pc = "send", !.query = query,
                           !.url = Some(GeocodeUrl(query)),
                           !.user_agent = Some("OSM-Map-App/1.0")]
    /\ UNCHANGED <<lockVars, shellVars, distance_call, text_call, storeVars, now, route_call, crashed>>

\* Line 251: send().await? fails.
GeocodeSendFailed ==
    /\ ~crashed
    /\ geocode_call.pc = "send"
    /\ geocode_call' = [geocode_call EXCEPT !.pc = "done",
                           !.result = Some(Err("reqwest::Error { kind: Request }"))]
    /\ UNCHANGED <<lockVars, shellVars, distance_call, text_call, storeVars, now, route_call, crashed>>

\* Lines 251-253: the response head arrives; the status is not looked at.
GeocodeResponse(status) ==
    /\ ~crashed
    /\ geocode_call.pc = "send"
    /\ geocode_call' = [geocode_call EXCEPT !.pc = "json", !.status = Some(status)]
    /\ UNCHANGED <<lockVars, shellVars, distance_call, text_call, storeVars, now, route_call, crashed>>

\* Lines 253-258: the body arrives, is decoded and mapped; a panic ends the process.
GeocodeBody(body) ==
    LET outcome == GeocodeOutcome(body, now) IN
    /\ ~crashed
    /\ geocode_call.pc = "json"
    /\ IF is_panic(outcome)
       THEN /\ geocode_call' = [geocode_call EXCEPT !.pc = "panicked", !.body = Some(body)]
            /\ crashed' = TRUE
       ELSE /\ geocode_call' = [geocode_call EXCEPT !.pc = "done", !.body = Some(body),
                                   !.result = Some(outcome)]
            /\ UNCHANGED crashed
    /\ UNCHANGED <<lockVars, shellVars, distance_call, text_call, storeVars, now, route_call>>

\* Line 253: json().await? fails while the body is read.
GeocodeBodyFailed ==
    /\ ~crashed
    /\ geocode_call.pc = "json"
    /\ geocode_call' = [geocode_call EXCEPT !.pc = "done",
                           !.result = Some(Err("reqwest::Error { kind: Body }"))]
    /\ UNCHANGED <<lockVars, shellVars, distance_call, text_call, storeVars, now, route_call, crashed>>

----------------------------------------------------------------------------
(* routing.rs: the text functions applied to arguments of their types *)

\* maneuver.type values: the seven kinds with a template of their own,
\* "continue", another kind of the provider, or none.
ManeuverTypes ==
    {None} \cup {Some(kind) : kind \in {"depart", "turn", "merge", "ramp", "fork",
                                        "roundabout", "arrive", "continue", "new name"}}

\* maneuver.modifier values: none, modifiers of the provider, and a string
\* with "slight " elsewhere than at its start.
Modifiers ==
    {None, Some("left"), Some("slight right"), Some("sharp left"), Some("keep slight left")}

Names == {None, Some(""), Some("High Street")}

Refs == {None, Some("A40")}

\* bearing_after values of the steps, tenths of a degree
StepBearings == {None, Some(440)}

\* step distances, centimetres
StepDistances == {20000, 150000}

\* Every OSRMStep over the values above.
Steps ==
    {[distance |-> distance, duration |-> 60,
      maneuver |-> [location |-> <<-1278, 515074>>, maneuver_type |-> maneuver_type,
                    modifier |-> modifier, bearing_after |-> bearing_after],
      name |-> name, ref_ |-> ref_] :
        distance \in StepDistances, maneuver_type \in ManeuverTypes,
        modifier \in Modifiers, bearing_after \in StepBearings,
        name \in Names, ref_ \in Refs}

\* Distances given to format_distance, centimetres: around each threshold and
\* rounding boundary, and the values 500 m, 1500 m and 1609.34 m.
Distances ==
    {0, 40, 160, 20000, 50000, 99940, 99950, 99960, 100000, 104900, 105100,
     150000, 160934, 1234567, 3400000}

\* Bearings given to bearing_to_direction, tenths of a degree: both sides of
\* every sector boundary, negative values and values of a full turn or more.
Bearings ==
    {None} \cup {Some(b) : b \in {0, 224, 225, 440, 674, 675, 900, 1124, 1125, 1574, 1575,
                                  1800, 2024, 2025, 2474, 2475, 2700, 2924, 2925, 3374,
                                  3375, 3590, 3599, 3600, 3825, 7200, -1, -225, -226,
                                  -900, -3600, -3825}}

NoTextCall ==
    [op |-> "none", step |-> None, use_miles |-> FALSE, meters |-> 0,
     bearing |-> None, out |-> ""]

\* generate_instruction_text(step, use_miles) is called and returns.
GenerateInstructionText(step, use_miles) ==
    /\ text_call = NoTextCall
    /\ text_call' = [NoTextCall EXCEPT !.op = "generate_instruction_text",
                        !.step = Some(step), !.use_miles = use_miles,
                        !.out = generate_instruction_text(step, use_miles)]
    /\ UNCHANGED <<lockVars, shellVars, distance_call, storeVars, now, route_call, geocode_call, crashed>>

\* format_distance(meters, use_miles) is called and returns.
FormatDistance(meters, use_miles) ==
    /\ text_call = NoTextCall
    /\ text_call' = [NoTextCall EXCEPT !.op = "format_distance",
                        !.meters = meters, !.use_miles = use_miles,
                        !.out = format_distance(meters, use_miles)]
    /\ UNCHANGED <<lockVars, shellVars, distance_call, storeVars, now, route_call, geocode_call, crashed>>

\* bearing_to_direction(bearing) is called and returns.
BearingToDirection(bearing) ==
    /\ text_call = NoTextCall
    /\ text_call' = [NoTextCall EXCEPT !.op = "bearing_to_direction",
                        !.bearing = bearing,
                        !.out = bearing_to_direction(bearing)]
    /\ UNCHANGED <<lockVars, shellVars, distance_call, storeVars, now, route_call, geocode_call, crashed>>

----------------------------------------------------------------------------
(* The callers of the store *)

\* The clock advances between two events of the main loop.
Tick ==
    /\ ~crashed
    /\ now < MaxTime
    /\ now' = now + 1
    /\ UNCHANGED <<lockVars, shellVars, distance_call, text_call, storeVars, route_call, geocode_call, crashed>>

\* location_button.connect_clicked: build the fix, lock the service, update.
LocationClicked ==
    /\ ~crashed
    /\ Len(updates) < MaxUpdates
    /\ update_location(SimulatedFix(now))
    /\ updates' = Append(updates, SimulatedFix(now))
    /\ UNCHANGED <<lockVars, shellVars, distance_call, text_call, now, route_call, geocode_call, crashed>>

----------------------------------------------------------------------------

(* The store behind Arc<Mutex<GeolocationService>>: callers that run the     *)
(* handler blocks of main_map.rs:651-660 and main_simple.rs:196-223 one      *)
(* statement at a time.                                                      *)

IdleRequest ==
    [pc |-> "idle", waypoints |-> <<>>, use_miles_val |-> None, shown |-> None,
     abandoned_at |-> None]

NoDistanceCall == [called |-> FALSE, self |-> None, other |-> None, out |-> 0]

\* The handlers that hold a clone of the Arc (main_simple.rs:192, 217).
Callers == {"location_button", "route_button"}

IdleCaller == [pc |-> "idle", location |-> None, seen |-> None]

\* main_map.rs:655, main_simple.rs:198: the fix is built (the clock is read)
\* before the lock is asked for.
BuildFix(c) ==
    /\ ~crashed
    /\ callers[c].pc = "idle"
    /\ Len(updates) + Cardinality({d \in Callers : callers[d].location # None}) < MaxUpdates
    /\ callers' = [callers EXCEPT ![c] = [IdleCaller EXCEPT !.pc = "lock_update",
                                              !.location = Some(SimulatedFix(now))]]
    /\ UNCHANGED <<mutex, shellVars, distance_call, text_call, storeVars, now, route_call,
                   geocode_call, crashed>>

\* main_simple.rs:220: the route button is about to read the store.
BeginRead(c) ==
    /\ ~crashed
    /\ callers[c].pc = "idle"
    /\ callers' = [callers EXCEPT ![c] = [IdleCaller EXCEPT !.pc = "lock_read"]]
    /\ UNCHANGED <<mutex, shellVars, distance_call, text_call, storeVars, now, route_call,
                   geocode_call, crashed>>

\* Mutant of lock(): the guard is handed out while another caller holds it.
Lock_no_wait(c) ==
    /\ ~crashed
    /\ callers[c].pc \in {"lock_update", "lock_read"}
    /\ mutex' = Some(c)
    /\ callers' = [callers EXCEPT ![c].pc =
                      IF callers[c].pc = "lock_update" THEN "push" ELSE "current"]
    /\ UNCHANGED <<shellVars, distance_call, text_call, storeVars, now, route_call,
                   geocode_call, crashed>>

\* geo_service.lock().unwrap(): returns once no caller holds the guard.
Lock(c) ==
    /\ ~crashed
    /\ callers[c].pc \in {"lock_update", "lock_read"}
    /\ mutex = None
    /\ mutex' = Some(c)
    /\ callers' = [callers EXCEPT ![c].pc =
                      IF callers[c].pc = "lock_update" THEN "push" ELSE "current"]
    /\ UNCHANGED <<shellVars, distance_call, text_call, storeVars, now, route_call,
                   geocode_call, crashed>>

\* geolocation.rs:74: self.location_history.push(location.clone())
UpdatePush(c) ==
    /\ ~crashed
    /\ callers[c].pc = "push"
    /\ location_history' = Append(location_history, callers[c].location[1])
    /\ updates' = Append(updates, callers[c].location[1])
    /\ callers' = [callers EXCEPT ![c].pc = "set"]
    /\ UNCHANGED <<mutex, shellVars, distance_call, text_call, current_location, now,
                   route_call, geocode_call, crashed>>

\* geolocation.rs:75: self.current_location = Some(location)
UpdateSetCurrent(c) ==
    /\ ~crashed
    /\ callers[c].pc = "set"
    /\ current_location' = Some(callers[c].location[1])
    /\ callers' = [callers EXCEPT ![c].pc = "evict"]
    /\ UNCHANGED <<mutex, shellVars, distance_call, text_call, location_history, updates, now,
                   route_call, geocode_call, crashed>>

\* geolocation.rs:78-80: if len > 100 { remove(0) }
UpdateEvict(c) ==
    /\ ~crashed
    /\ callers[c].pc = "evict"
    /\ location_history' = IF Len(location_history) > HistoryCap
                           THEN Tail(location_history)
                           ELSE location_history
    /\ callers' = [callers EXCEPT ![c].pc = "unlock"]
    /\ UNCHANGED <<mutex, shellVars, distance_call, text_call, current_location, updates, now,
                   route_call, geocode_call, crashed>>

\* geolocation.rs:83-85 under the guard: what get_current_location returns.
ReadCurrent(c) ==
    /\ ~crashed
    /\ callers[c].pc = "current"
    /\ callers' = [callers EXCEPT ![c].pc = "history",
                                  ![c].seen = Some([current |-> get_current_location,
                                                    len |-> 0, last |-> None])]
    /\ UNCHANGED <<mutex, shellVars, distance_call, text_call, storeVars, now, route_call,
                   geocode_call, crashed>>

\* geolocation.rs:87-89 under the same guard: what get_location_history
\* returns (its length and its last entry are kept).
ReadHistory(c) ==
    /\ ~crashed
    /\ callers[c].pc = "history"
    /\ callers' = [callers EXCEPT ![c].pc = "unlock",
                      ![c].seen = Some([current |-> callers[c].seen[1].current,
                                        len |-> Len(get_location_history),
                                        last |-> IF get_location_history = <<>> THEN None
                                                 ELSE Some(get_location_history[Len(get_location_history)])])]
    /\ UNCHANGED <<mutex, shellVars, distance_call, text_call, storeVars, now, route_call,
                   geocode_call, crashed>>

\* The guard goes out of scope at the end of the block; the handler returns.
Unlock(c) ==
    /\ ~crashed
    /\ callers[c].pc = "unlock"
    /\ mutex' = None
    /\ callers' = [callers EXCEPT ![c] = IdleCaller]
    /\ UNCHANGED <<shellVars, distance_call, text_call, storeVars, now, route_call,
                   geocode_call, crashed>>

----------------------------------------------------------------------------

(* main_map.rs: the units toggle and the calculate_route message            *)

\* Lines 129-141: units_toggle.connect_state_set stores the switch state.
UnitsToggled(is_active) ==
    /\ ~crashed
    /\ use_miles_shared' = is_active
    /\ UNCHANGED <<lockVars, route_request, distance_call, text_call, storeVars, now,
                   route_call, geocode_call, crashed>>

\* Lines 349-385: a calculate_route message with its parsed waypoints; with
\* two or more the future is spawned on the main loop, to be polled later.
ScriptMessage(waypoints) ==
    /\ ~crashed
    /\ route_request.pc = "idle"
    /\ route_request' =
         IF Len(waypoints) >= 2
         THEN [IdleRequest EXCEPT !.pc = "spawned", !.waypoints = waypoints]
         ELSE [IdleRequest EXCEPT !.pc = "rejected", !.waypoints = waypoints]
    /\ UNCHANGED <<lockVars, use_miles_shared, distance_call, text_call, storeVars, now,
                   route_call, geocode_call, crashed>>

\* Line 386: let use_miles_val = *use_miles.lock().unwrap()
RequestPolled ==
    /\ ~crashed
    /\ route_request.pc = "spawned"
    /\ route_request' = [route_request EXCEPT !.pc = "calling",
                                               !.use_miles_val = Some(use_miles_shared)]
    /\ UNCHANGED <<lockVars, use_miles_shared, distance_call, text_call, storeVars, now,
                   route_call, geocode_call, crashed>>

\* Line 387: routing_service.calculate_route(&waypoints, use_miles_val)
RequestCalls ==
    /\ route_request.pc = "calling"
    /\ CalculateRoute(route_request.waypoints, route_request.use_miles_val[1])

\* Lines 389-410: "Route: <distance>, <time>"; the distance is in miles or
\* in kilometres (never metres), the time in hours and minutes.
SummaryText(route, use_miles_val) ==
    LET distance_text == IF use_miles_val
                         THEN FmtTenths(MilesTenths(route.distance)) \o " mi"
                         ELSE FmtTenths(RoundHalfEven(route.distance, 10000)) \o " km"
        hours == route.duration \div 3600
        minutes == (route.duration \div 60) % 60
        time_text == IF hours > 0
                     THEN ToString(hours) \o " hr " \o ToString(minutes) \o " min"
                     ELSE ToString(minutes) \o " min"
    IN  "Route: " \o distance_text \o ", " \o time_text

\* Lines 437-442: "<i>. <instruction.text>" for every instruction.
DirectionLabels(route) ==
    [i \in 1..Len(route.instructions) |-> ToString(i) \o ". " \o route.instructions[i].text]

\* Mutant of the display: the summary reads the toggle again.
RouteShown_reads_toggle_again ==
    /\ ~crashed
    /\ route_request.pc = "calling"
    /\ route_call.pc = "done"
    /\ route_request' =
         IF is_ok(route_call.result[1])
         THEN [route_request EXCEPT !.pc = "shown",
                  !.shown = Some([summary |-> SummaryText(route_call.result[1][2],
                                                          use_miles_shared),
                                  directions |-> DirectionLabels(route_call.result[1][2])])]
         ELSE [route_request EXCEPT !.pc = "alerted"]
    /\ UNCHANGED <<lockVars, use_miles_shared, distance_call, text_call, storeVars, now,
                   route_call, geocode_call, crashed>>

\* Lines 387-480: calculate_route has returned to the future; Ok fills the
\* directions pane (summary and labels), Err raises an alert.
RouteShown ==
    /\ ~crashed
    /\ route_request.pc = "calling"
    /\ route_call.pc = "done"
    /\ route_request' =
         IF is_ok(route_call.result[1])
         THEN [route_request EXCEPT !.pc = "shown",
                  !.shown = Some([summary |-> SummaryText(route_call.result[1][2],
                                                          route_request.use_miles_val[1]),
                                  directions |-> DirectionLabels(route_call.result[1][2])])]
         ELSE [route_request EXCEPT !.pc = "alerted"]
    /\ UNCHANGED <<lockVars, use_miles_shared, distance_call, text_call, storeVars, now,
                   route_call, geocode_call, crashed>>

\* Mutant of the drop: what the call had built so far is left as a result.
RouteAbandoned_keeps_partial ==
    /\ ~crashed
    /\ \/ route_request.pc = "spawned"
       \/ route_request.pc = "calling" /\ route_call.pc \in {"send", "json"}
    /\ route_request' = [route_request EXCEPT !.pc = "abandoned",
                            !.abandoned_at = Some(IF route_request.pc = "spawned"
                                                  THEN "spawned" ELSE route_call.pc)]
    /\ route_call' = [route_call EXCEPT !.pc = "dropped",
                         !.result = Some(Ok([distance |-> 0, duration |-> 0]))]
    /\ UNCHANGED <<lockVars, use_miles_shared, distance_call, text_call, storeVars, now,
                   geocode_call, crashed>>

\* The spawned future is dropped before it has run or at an await of
\* calculate_route (routing.rs:73 send().await, :79 json().await): its
\* locals go with it and nothing is returned or shown.
RouteAbandoned ==
    /\ ~crashed
    /\ \/ route_request.pc = "spawned"
       \/ route_request.pc = "calling" /\ route_call.pc \in {"send", "json"}
    /\ route_request' = [route_request EXCEPT !.pc = "abandoned",
                            !.abandoned_at = Some(IF route_request.pc = "spawned"
                                                  THEN "spawned" ELSE route_call.pc)]
    /\ route_call' = [IdleRoute EXCEPT !.pc = "dropped"]
    /\ UNCHANGED <<lockVars, use_miles_shared, distance_call, text_call, storeVars, now,
                   geocode_call, crashed>>

\* The geocode future is dropped at one of its awaits (routing.rs:251, 253).
GeocodeAbandoned ==
    /\ ~crashed
    /\ geocode_call.pc \in {"send", "json"}
    /\ geocode_call' = [IdleGeocode EXCEPT !.pc = "dropped", !.query = geocode_call.query]
    /\ UNCHANGED <<lockVars, shellVars, distance_call, text_call, storeVars, now, route_call,
                   crashed>>

\* Bodies the routing provider sends in the runs of the whole shell: an
\* error object, no route, and a route of one leg of two steps.
ShellRouteBodies ==
    { [code |-> "InvalidQuery", message |-> "Query string malformed"],
      [code |-> "Ok", routes |-> <<>>] }
    \cup { [code |-> "Ok", routes |-> <<WireRoute(<<WireLeg(<<first, second>>)>>)>>] :
              first \in {step \in WireSteps : step.maneuver.type = "depart"},
              second \in {step \in WireSteps : step.maneuver.type = "turn"} }

\* Bodies the geocoding provider sends in the runs of the whole shell.
ShellGeocodeBodies ==
    {body \in GeocodeBodies : body.json = "object" \/ Len(body.items) <= 1}

----------------------------------------------------------------------------

(* One call of Location::distance_to *)

\* Coordinates (1e-4 degree): London, Big Ben, Paris, New York, Sydney,
\* Tokyo, Reykjavik, Cape Town, Quito on the equator, the null island and
\* the north pole.
Coordinates ==
    { <<515074, -1278>>, <<514994, -1245>>, <<488566, 23522>>, <<407128, -740060>>,
      <<-338688, 1512093>>, <<356762, 1396503>>, <<641466, -219426>>,
      <<-339249, 184241>>, <<-1807, -784678>>, <<0, 0>>, <<900000, 0>> }

\* london.distance_to(&paris): both locations and the metres returned.
DistanceTo(self, other) ==
    /\ distance_call = NoDistanceCall
    /\ distance_call' = [called |-> TRUE, self |-> Some(self), other |-> Some(other),
                         out |-> distance_to(self, other)]
    /\ UNCHANGED <<lockVars, shellVars, text_call, storeVars, now, route_call, geocode_call,
                   crashed>>

----------------------------------------------------------------------------

InitCalls ==
    /\ route_call = IdleRoute
    /\ geocode_call = IdleGeocode
    /\ crashed = FALSE
    /\ text_call = NoTextCall
    /\ distance_call = NoDistanceCall

\* main_map.rs:122-124: nobody holds the store, the toggle starts on miles.
InitShell ==
    /\ mutex = None
    /\ callers = [c \in Callers |-> IdleCaller]
    /\ use_miles_shared = TRUE
    /\ route_request = IdleRequest

Init ==
    /\ GeolocationServiceNew
    /\ now = 0
    /\ updates = <<>>
    /\ InitCalls
    /\ InitShell

NextStore == Tick \/ LocationClicked

NextRoute ==
    \/ Tick
    \/ \E waypoints \in SeqsUpTo(WaypointPool, MaxWaypoints), use_miles \in BOOLEAN :
          CalculateRoute(waypoints, use_miles)
    \/ RouteSendFailed
    \/ \E status \in Statuses : RouteResponse(status)
    \/ \E body \in RouteBodies : RouteBody(body)
    \/ RouteBodyFailed

NextGeocode ==
    \/ Tick
    \/ \E query \in Queries : Geocode(query)
    \/ GeocodeSendFailed
    \/ \E status \in Statuses : GeocodeResponse(status)
    \/ \E body \in GeocodeBodies : GeocodeBody(body)
    \/ GeocodeBodyFailed

NextText ==
    \/ \E step \in Steps, use_miles \in BOOLEAN : GenerateInstructionText(step, use_miles)
    \/ \E meters \in Distances, use_miles \in BOOLEAN : FormatDistance(meters, use_miles)
    \/ \E bearing \in Bearings : BearingToDirection(bearing)

NextDistance ==
    \E a \in Coordinates, b \in Coordinates :
        DistanceTo(LocationNew(a[1], a[2], 0), LocationNew(b[1], b[2], 0))

NextLock ==
    \/ Tick
    \/ BuildFix("location_button")
    \/ BeginRead("route_button")
    \/ \E c \in Callers :
          \/ Lock(c)
          \/ UpdatePush(c)
          \/ UpdateSetCurrent(c)
          \/ UpdateEvict(c)
          \/ ReadCurrent(c)
          \/ ReadHistory(c)
          \/ Unlock(c)

NextShell ==
    \/ Len(updates) < MaxClicks /\ LocationClicked
    \/ \E is_active \in BOOLEAN : UnitsToggled(is_active)
    \/ \E waypoints \in SeqsUpTo(WaypointPool, MaxWaypoints) : ScriptMessage(waypoints)
    \/ RequestPolled
    \/ RequestCalls
    \/ RouteSendFailed
    \/ \E status \in Statuses : RouteResponse(status)
    \/ \E body \in ShellRouteBodies : RouteBody(body)
    \/ RouteBodyFailed
    \/ RouteShown
    \/ RouteAbandoned
    \/ \E query \in Queries : Geocode(query)
    \/ GeocodeSendFailed
    \/ \E status \in Statuses : GeocodeResponse(status)
    \/ \E body \in ShellGeocodeBodies : GeocodeBody(body)
    \/ GeocodeBodyFailed
    \/ GeocodeAbandoned

Next ==
    NextStore \/ NextRoute \/ NextGeocode \/ NextText \/ NextDistance \/ NextLock \/ NextShell

\* The location store under the location button alone.
SpecStore == Init /\ [][NextStore]_vars

\* One calculate_route call against every provider behaviour.
SpecRoute == Init /\ [][NextRoute]_vars

\* One geocode call against every provider behaviour.
SpecGeocode == Init /\ [][NextGeocode]_vars

\* One call of a text function, on every argument of the sets above.
SpecText == Init /\ [][NextText]_vars

\* One call of distance_to on every pair of the coordinates above.
SpecDistance == Init /\ [][NextDistance]_vars

\* The callers of the store, statement by statement, around its Mutex.
SpecLock == Init /\ [][NextLock]_vars

\* The shell of main_map.rs: the location button, the units toggle, one
\* calculate_route message and one geocode call, interleaved.
SpecShell == Init /\ [][NextShell]_vars

Spec == Init /\ [][Next]_vars

----------------------------------------------------------------------------
(* Claims about the location store *)

NumUpdates == Len(updates)

LastUpdate == updates[Len(updates)]

\* C1: after any sequence of update calls the history holds at most 100
\* entries and, when it is non-empty, its last entry is the current location.
C1_HistoryBoundedAndLastIsCurrent ==
    /\ Len(location_history) <= 100
    /\ location_history # <<>> =>
          current_location = Some(location_history[Len(location_history)])

\* C1 witness: the store is full after more than 100 updates, entries differ.
C1_Witness ==
    /\ NumUpdates > 100
    /\ Len(location_history) = 100
    /\ location_history[1] # location_history[100]

\* The last min(n, 100) updated locations, oldest first.
LastUpdates ==
    SubSeq(updates, NumUpdates - Min(NumUpdates, 100) + 1, NumUpdates)

\* C2: eviction is strict FIFO, one eviction per over-capacity insert: the
\* history is always the last min(n, 100) updated locations in update order,
\* and an update of a full history drops exactly its oldest entry.
C2_StrictFifo ==
    /\ [](location_history = LastUpdates)
    /\ [][(Len(location_history) = 100 /\ updates' # updates) =>
            location_history' = Append(Tail(location_history), updates'[Len(updates')])]_vars

\* C2 witness: an eviction has happened and the evicted entry differs from
\* the oldest entry kept.
C2_Witness ==
    /\ NumUpdates > 100
    /\ Len(location_history) = 100
    /\ updates[NumUpdates - 100] # location_history[1]

\* C3: after n sequential updates history() has exactly min(n, 100) entries
\* and current() is the n-th location (n = 1 gives length 1, n = 101 gives 100).
C3_LengthAndCurrentAfterN ==
    /\ Len(get_location_history) = Min(NumUpdates, 100)
    /\ NumUpdates = 1 => Len(get_location_history) = 1
    /\ NumUpdates = 101 => Len(get_location_history) = 100
    /\ NumUpdates >= 1 => get_current_location = Some(updates[NumUpdates])

\* C3 witness: exactly 101 updates were made, the 101st differs from the first.
C3_Witness ==
    /\ NumUpdates = 101
    /\ Len(location_history) = 100
    /\ updates[101] # updates[1]
    /\ current_location = Some(updates[101])

\* C4: current() is absent on a store never updated and is the most recently
\* updated location afterwards.
C4_CurrentAbsentOrLatest ==
    IF NumUpdates = 0
    THEN get_current_location = None
    ELSE /\ is_some(get_current_location)
         /\ get_current_location[1] = LastUpdate

\* C4 witness: two updates with different locations, the later one is current.
C4_Witness ==
    /\ NumUpdates >= 2
    /\ updates[1] # LastUpdate
    /\ current_location = Some(LastUpdate)

----------------------------------------------------------------------------
(* Claims about calculate_route *)

\* The failure class of an error value returned by the routing service.
ErrorKind(error) ==
    CASE error = "At least 2 waypoints are required" -> "InvalidInput"
      [] starts_with(error, "Routing API error: ") -> "ProviderError"
      [] error = "No route found" -> "NoRouteFound"
      [] error = "reqwest::Error { kind: Request }" -> "NetworkError"
      [] error = "reqwest::Error { kind: Body }" -> "NetworkError"
      [] error = "reqwest::Error { kind: Decode }" -> "ParseError"
      [] OTHER -> "Unknown"

\* The call was started and has returned result to its caller.
RouteReturned == route_call.pc = "done" /\ route_call.result # None

RouteResult == route_call.result[1]

FailsWith(result, kind) == is_err(result) /\ ErrorKind(result[2]) = kind

\* C5: calculateRoute called with fewer than 2 waypoints (0 or 1) fails with
\* InvalidInput and returns no Route; it fails at once, before any request.
C5_TooFewWaypointsInvalidInput ==
    (route_call.pc # "idle" /\ Len(route_call.waypoints) < 2) =>
        /\ RouteReturned
        /\ FailsWith(RouteResult, "InvalidInput")
        /\ ~is_ok(RouteResult)

\* C5 witness: a call with exactly one waypoint has returned its error.
C5_Witness ==
    /\ RouteReturned
    /\ Len(route_call.waypoints) = 1
    /\ is_err(RouteResult)

\* The provider answered with a success status and a body that is a
\* response object whose routes array is empty.
EmptyRoutesAnswered ==
    /\ route_call.status # None
    /\ is_success(route_call.status[1])
    /\ route_call.body # None
    /\ "routes" \in DOMAIN route_call.body[1]
    /\ route_call.body[1].routes = <<>>

\* C6: when the routing provider answers successfully with an empty routes
\* array, calculateRoute fails with NoRouteFound instead of returning a Route.
C6_EmptyRoutesNoRouteFound ==
    EmptyRoutesAnswered =>
        /\ RouteReturned
        /\ FailsWith(RouteResult, "NoRouteFound")
        /\ ~is_ok(RouteResult)

\* C6 witness: a call with two waypoints got status 200 and no routes.
C6_Witness ==
    /\ EmptyRoutesAnswered
    /\ Len(route_call.waypoints) >= 2
    /\ RouteReturned
    /\ is_err(RouteResult)

NonSuccessAnswered ==
    /\ route_call.status # None
    /\ ~is_success(route_call.status[1])

\* C7: when the routing provider answers with a non-success HTTP status,
\* calculateRoute fails with ProviderError, and the response body is never
\* decoded into a route.
C7_NonSuccessProviderError ==
    NonSuccessAnswered =>
        /\ RouteReturned
        /\ FailsWith(RouteResult, "ProviderError")
        /\ ~route_call.decoded
        /\ route_call.body = None

\* C7 witness: a call got status 400 and has returned its error.
C7_Witness ==
    /\ route_call.status = Some(400)
    /\ RouteReturned
    /\ RouteResult = Err("Routing API error: 400 Bad Request")

\* The legs of the first candidate, as the provider sent them.
FirstLegs == route_call.body[1].routes[1].legs

\* Number of steps in the legs before leg l.
RECURSIVE StepsBefore(_, _)
StepsBefore(legs, l) ==
    IF l = 1 THEN 0 ELSE StepsBefore(legs, l - 1) + Len(legs[l - 1].steps)

\* instruction was made from the step the provider sent as wire_step.
MadeFrom(instruction, wire_step, use_miles) ==
    /\ instruction.distance = wire_step.distance
    /\ instruction.duration = wire_step.duration
    /\ instruction.location.latitude = wire_step.maneuver.location[2]
    /\ instruction.location.longitude = wire_step.maneuver.location[1]
    /\ instruction.text = generate_instruction_text(DecodeOSRMStep(wire_step), use_miles)

\* C8: the instructions of a returned Route are the provider's steps in
\* leg-major, step-minor order, one instruction per step: the length is the
\* total number of steps and step s of leg l is at position
\* (steps before leg l) + s.
C8_InstructionsLegMajorStepMinor ==
    (RouteReturned /\ is_ok(RouteResult)) =>
        LET instructions == RouteResult[2].instructions IN
        /\ Len(instructions) = StepsBefore(FirstLegs, Len(FirstLegs) + 1)
        /\ \A l \in 1..Len(FirstLegs) : \A s \in 1..Len(FirstLegs[l].steps) :
              MadeFrom(instructions[StepsBefore(FirstLegs, l) + s],
                       FirstLegs[l].steps[s], route_call.use_miles)

\* C8 witness: a route of 2 legs of 2 steps each, the steps of a leg differ
\* and the legs differ, returned with 4 instructions.
C8_Witness ==
    /\ RouteReturned
    /\ is_ok(RouteResult)
    /\ Len(FirstLegs) = 2
    /\ Len(FirstLegs[1].steps) = 2
    /\ Len(FirstLegs[2].steps) = 2
    /\ FirstLegs[1].steps[1] # FirstLegs[1].steps[2]
    /\ FirstLegs[1] # FirstLegs[2]
    /\ Len(RouteResult[2].instructions) = 4

----------------------------------------------------------------------------
(* Claims about geocode *)

\* The provider's body decoded to a list holding a result whose lat or lon
\* is not a valid float.
MalformedResultAnswered ==
    /\ geocode_call.body # None
    /\ geocode_call.body[1].json = "array"
    /\ \E i \in 1..Len(geocode_call.body[1].items) :
          \/ is_err(ParseF64(geocode_call.body[1].items[i].lat))
          \/ is_err(ParseF64(geocode_call.body[1].items[i].lon))

\* C9: geocode fails with a typed ParseError returned to the caller, and does
\* not crash the process, when a provider result's lat or lon string is not
\* a valid float.
C9_MalformedCoordinateParseError ==
    MalformedResultAnswered =>
        /\ ~crashed
        /\ geocode_call.pc = "done"
        /\ geocode_call.result # None
        /\ FailsWith(geocode_call.result[1], "ParseError")

EmptyArrayAnswered ==
    /\ geocode_call.body # None
    /\ geocode_call.body[1].json = "array"
    /\ geocode_call.body[1].items = <<>>

\* C10: geocode returns an empty list, and not an error, when the geocoding
\* provider returns an empty JSON array.
C10_EmptyArrayEmptyList ==
    EmptyArrayAnswered =>
        /\ ~crashed
        /\ geocode_call.pc = "done"
        /\ geocode_call.result = Some(Ok(<<>>))

\* C10 witness: a geocode call got an empty array and has returned.
C10_Witness ==
    /\ EmptyArrayAnswered
    /\ geocode_call.pc = "done"
    /\ geocode_call.query # ""
    /\ is_ok(geocode_call.result[1])

----------------------------------------------------------------------------
(* Claims about the instruction text *)

\* generate_instruction_text was called; GenStep is the step it was given.
GenCalled == text_call.op = "generate_instruction_text"

GenStep == text_call.step[1]

\* The maneuver kind of the step, as the provider gave it (an Option).
GenKind == GenStep.maneuver.maneuver_type

\* C11: for a step whose maneuver kind is arrive, generate yields exactly
\* "Arrive at your destination" for every modifier, road name, road ref,
\* bearing, distance and unit preference.
C11_ArriveFixedText ==
    (GenCalled /\ GenKind = Some("arrive")) =>
        text_call.out = "Arrive at your destination"

\* C11 witness: an arrive step that carries a modifier, a name, a ref and a
\* bearing, in miles.
C11_Witness ==
    /\ GenCalled
    /\ GenKind = Some("arrive")
    /\ GenStep.maneuver.modifier # None
    /\ GenStep.name = Some("High Street")
    /\ GenStep.ref_ # None
    /\ GenStep.maneuver.bearing_after # None
    /\ text_call.use_miles
    /\ text_call.out = "Arrive at your destination"

\* The road name and the road ref the step carries; an empty name is no name.
NamePresent == GenStep.name # None /\ GenStep.name # Some("")

RefPresent == GenStep.ref_ # None

\* The streetInfo of the step, by the four cases of the composition rule.
GenStreetInfo ==
    CASE NamePresent /\ RefPresent ->
             "on " \o GenStep.name[1] \o " (" \o GenStep.ref_[1] \o ")"
      [] NamePresent /\ ~RefPresent -> "on " \o GenStep.name[1]
      [] ~NamePresent /\ RefPresent -> "on " \o GenStep.ref_[1]
      [] OTHER -> ""

\* The <formatDistance> of the step under the unit preference of the call.
GenDistance == format_distance(GenStep.distance, text_call.use_miles)

\* " <streetInfo>" when there is one, nothing otherwise.
GenStreetClause == IF GenStreetInfo = "" THEN "" ELSE " " \o GenStreetInfo

\* C12 as claimed: a roundabout without streetInfo reads "Enter the
\* roundabout" alone, with streetInfo "Enter the roundabout and take
\* <streetInfo> for <formatDistance>".
C12_RoundaboutAloneAsClaimed ==
    (GenCalled /\ GenKind = Some("roundabout")) =>
        text_call.out =
            IF GenStreetInfo = ""
            THEN "Enter the roundabout"
            ELSE "Enter the roundabout and take " \o GenStreetInfo \o " for " \o GenDistance

\* C12 amended: a roundabout without streetInfo reads "Enter the roundabout
\* for <formatDistance>" (the distance clause is kept), with streetInfo
\* "Enter the roundabout and take <streetInfo> for <formatDistance>".
C12_RoundaboutKeepsDistance ==
    (GenCalled /\ GenKind = Some("roundabout")) =>
        text_call.out =
            IF GenStreetInfo = ""
            THEN "Enter the roundabout for " \o GenDistance
            ELSE "Enter the roundabout and take " \o GenStreetInfo \o " for " \o GenDistance

\* C12 witness: a roundabout step of 200 m without name or ref, in metric.
C12_Witness ==
    /\ GenCalled
    /\ GenKind = Some("roundabout")
    /\ GenStreetInfo = ""
    /\ ~text_call.use_miles
    /\ text_call.out = "Enter the roundabout for 200 m"

\* C13: the street-info composition has four cases: name and ref give
\* "on <name> (<ref>)", name only "on <name>", ref only "on <ref>", neither
\* the empty string; the fallback template carries it between "Continue" and
\* the distance.
C13_StreetInfoFourCases ==
    GenCalled =>
        /\ StreetInfo(GenStep.name, GenStep.ref_) = GenStreetInfo
        /\ GenKind = Some("continue") =>
               text_call.out = "Continue" \o GenStreetClause \o " for " \o GenDistance

\* C13 witness: a step with a ref and no name, rendered with "on <ref>".
C13_Witness ==
    /\ GenCalled
    /\ GenKind = Some("continue")
    /\ GenStep.name = None
    /\ GenStep.ref_ = Some("A40")
    /\ GenStep.distance = 20000
    /\ ~text_call.use_miles
    /\ text_call.out = "Continue on A40 for 200 m"

\* The modifier of the step, the empty text when the step carries none.
GenModifier == IF GenStep.maneuver.modifier = None THEN "" ELSE GenStep.maneuver.modifier[1]

\* The modifier as a merge or a ramp shows it: without its "slight ".
GenModifierNoSlight ==
    CASE GenModifier = "slight right" -> "right"
      [] GenModifier = "keep slight left" -> "keep left"
      [] OTHER -> GenModifier

\* The compass word of the step's bearing-after.
GenDirection == bearing_to_direction(GenStep.maneuver.bearing_after)

\* The part of each distance-carrying template that precedes the street
\* clause.
GenHead ==
    CASE GenKind = Some("depart") -> "Head " \o GenDirection
      [] GenKind = Some("turn") -> "Turn " \o GenModifier
      [] GenKind = Some("merge") -> "Merge " \o GenModifierNoSlight
      [] GenKind = Some("ramp") -> "Take the ramp " \o GenModifierNoSlight
      [] GenKind = Some("fork") ->
             "Keep " \o (IF GenModifier = "" THEN "left" ELSE GenModifier) \o " at the fork"
      [] OTHER -> "Continue"

\* C14: with an empty streetInfo the depart, turn, merge, ramp, fork and
\* continue templates omit the street clause and the distance follows after
\* " for " with single spaces; a turn left of 200 m in metric reads
\* "Turn left for 200 m".
C14_EmptyStreetInfoOmitsClause ==
    (/\ GenCalled
     /\ GenStreetInfo = ""
     /\ GenKind \in {Some("depart"), Some("turn"), Some("merge"), Some("ramp"),
                     Some("fork"), Some("continue")}) =>
        /\ text_call.out = GenHead \o " for " \o GenDistance
        /\ (/\ GenKind = Some("turn")
            /\ GenStep.maneuver.modifier = Some("left")
            /\ GenStep.distance = 20000
            /\ ~text_call.use_miles) => text_call.out = "Turn left for 200 m"

\* C14 witness: the turn left of 200 m without name or ref, in metric.
C14_Witness ==
    /\ GenCalled
    /\ GenStreetInfo = ""
    /\ GenKind = Some("turn")
    /\ GenStep.maneuver.modifier = Some("left")
    /\ ~text_call.use_miles
    /\ text_call.out = "Turn left for 200 m"

FormatCalled == text_call.op = "format_distance"

\* The text expected of every distance of the pool (centimetres), metric
\* and miles, worked out by hand from the rule.
ExpectedMetric ==
    [m \in Distances |->
        CASE m = 0 -> "0 m"          [] m = 40 -> "0 m"
          [] m = 160 -> "2 m"        [] m = 20000 -> "200 m"
          [] m = 50000 -> "500 m"    [] m = 99940 -> "999 m"
          [] m = 99950 -> "1000 m"   [] m = 99960 -> "1000 m"
          [] m = 100000 -> "1.0 km"  [] m = 104900 -> "1.0 km"
          [] m = 105100 -> "1.1 km"  [] m = 150000 -> "1.5 km"
          [] m = 160934 -> "1.6 km"  [] m = 1234567 -> "12.3 km"
          [] m = 3400000 -> "34.0 km"]

ExpectedMiles ==
    [m \in Distances |->
        CASE m = 0 -> "0.0 mi"       [] m = 40 -> "0.0 mi"
          [] m = 160 -> "0.0 mi"     [] m = 20000 -> "0.1 mi"
          [] m = 50000 -> "0.3 mi"   [] m = 99940 -> "0.6 mi"
          [] m = 99950 -> "0.6 mi"   [] m = 99960 -> "0.6 mi"
          [] m = 100000 -> "0.6 mi"  [] m = 104900 -> "0.7 mi"
          [] m = 105100 -> "0.7 mi"  [] m = 150000 -> "0.9 mi"
          [] m = 160934 -> "1.0 mi"  [] m = 1234567 -> "7.7 mi"
          [] m = 3400000 -> "21.1 mi"]

\* The last n characters of a text.
Suffix(s, n) == IF Len(s) < n THEN s ELSE SubSeq(s, Len(s) - n + 1, Len(s))

\* C15: format_distance picks the unit from the preference and the
\* magnitude: miles is meters * 0.000621371 with one decimal and " mi",
\* metric from 1000 m on is kilometres with one decimal and " km", metric
\* below 1000 m is whole metres and " m"; 500 m is "500 m", 1500 m is
\* "1.5 km" and 1609.34 m in miles is "1.0 mi".
C15_FormatDistanceUnits ==
    FormatCalled =>
        /\ text_call.use_miles =>
               /\ Suffix(text_call.out, 3) = " mi"
               /\ text_call.out = ExpectedMiles[text_call.meters]
        /\ (~text_call.use_miles /\ text_call.meters >= 100000) =>
               /\ Suffix(text_call.out, 3) = " km"
               /\ text_call.out = ExpectedMetric[text_call.meters]
        /\ (~text_call.use_miles /\ text_call.meters < 100000) =>
               /\ Suffix(text_call.out, 2) = " m"
               /\ Suffix(text_call.out, 3) \notin {" km", " mi"}
               /\ text_call.out = ExpectedMetric[text_call.meters]
        /\ (~text_call.use_miles /\ text_call.meters = 50000) => text_call.out = "500 m"
        /\ (~text_call.use_miles /\ text_call.meters = 150000) => text_call.out = "1.5 km"
        /\ (text_call.use_miles /\ text_call.meters = 160934) => text_call.out = "1.0 mi"

\* C15 witness: 1609.34 m under the miles preference.
C15_Witness ==
    /\ FormatCalled
    /\ text_call.use_miles
    /\ text_call.meters = 160934
    /\ text_call.out = "1.0 mi"

BearingCalled == text_call.op = "bearing_to_direction"

\* The eight compass words clockwise from north.
CompassWords ==
    <<"north", "northeast", "east", "southeast", "south", "southwest", "west", "northwest">>

\* The bearing of the call (tenths of a degree) brought into [0, 3600).
NormalizedBearing == ((text_call.bearing[1] % 3600) + 3600) % 3600

\* The compass word of the sector that holds a normalized bearing.
SectorWord(n) ==
    CASE n >= 3375 \/ n < 225 -> "north"
      [] n >= 225 /\ n < 675 -> "northeast"
      [] n >= 675 /\ n < 1125 -> "east"
      [] n >= 1125 /\ n < 1575 -> "southeast"
      [] n >= 1575 /\ n < 2025 -> "south"
      [] n >= 2025 /\ n < 2475 -> "southwest"
      [] n >= 2475 /\ n < 2925 -> "west"
      [] n >= 2925 /\ n < 3375 -> "northwest"

\* C16: bearing_to_direction brings any bearing into [0, 360) and names the
\* one of eight 45-degree sectors that holds it, the boundaries at
\* 22.5 + k * 45 belonging to the sector above; an absent bearing is
\* "straight"; 0 and 359 are north, 44 is northeast.
C16_BearingSectors ==
    BearingCalled =>
        /\ text_call.bearing = None => text_call.out = "straight"
        /\ text_call.bearing # None =>
               /\ NormalizedBearing \in 0..3599
               /\ text_call.out = SectorWord(NormalizedBearing)
               /\ text_call.out = CompassWords[(((NormalizedBearing + 225) \div 450) % 8) + 1]
        /\ text_call.bearing \in {Some(0), Some(3590)} => text_call.out = "north"
        /\ text_call.bearing = Some(440) => text_call.out = "northeast"

\* C16 witness: a negative bearing on a boundary, -22.5 degrees, which is
\* 337.5 and so north.
C16_Witness ==
    /\ BearingCalled
    /\ text_call.bearing = Some(-225)
    /\ NormalizedBearing = 3375
    /\ text_call.out = "north"

\* The modifier with a leading "slight " taken off and nothing else changed.
GenModifierLeadingStripped ==
    IF Len(GenModifier) >= 7 /\ SubSeq(GenModifier, 1, 7) = "slight "
    THEN SubSeq(GenModifier, 8, Len(GenModifier))
    ELSE GenModifier

\* The words a merge and a ramp open with.
GenMergeOrRampLead == IF GenKind = Some("merge") THEN "Merge " ELSE "Take the ramp "

\* C17 as claimed: a merge or a ramp shows the modifier with a leading
\* "slight " stripped and otherwise unchanged, a modifier without that
\* prefix as given.
C17_LeadingSlightStrippedAsClaimed ==
    (GenCalled /\ GenKind \in {Some("merge"), Some("ramp")}) =>
        text_call.out = GenMergeOrRampLead \o GenModifierLeadingStripped
                            \o GenStreetClause \o " for " \o GenDistance

\* C17 amended: a merge or a ramp shows the modifier with every "slight "
\* in it removed, wherever it stands: "slight right" reads "right",
\* "keep slight left" reads "keep left", a modifier without "slight " is
\* shown as given.
C17_EverySlightRemoved ==
    (GenCalled /\ GenKind \in {Some("merge"), Some("ramp")}) =>
        /\ text_call.out = GenMergeOrRampLead \o GenModifierNoSlight
                               \o GenStreetClause \o " for " \o GenDistance
        /\ GenModifier = "slight right" => GenModifierNoSlight = GenModifierLeadingStripped
        /\ GenModifier \in {"left", "sharp left"} => GenModifierNoSlight = GenModifier

\* C17 witness: a ramp whose modifier has "slight " in the middle.
C17_Witness ==
    /\ GenCalled
    /\ GenKind = Some("ramp")
    /\ GenModifier = "keep slight left"
    /\ GenStreetInfo = "on High Street"
    /\ ~text_call.use_miles
    /\ text_call.out = "Take the ramp keep left on High Street for 200 m"

\* C18: a fork reads "Keep <modifier> at the fork [streetInfo] for
\* <formatDistance>", the modifier being "left" when the step carries none.
C18_ForkDefaultsLeft ==
    (GenCalled /\ GenKind = Some("fork")) =>
        text_call.out =
            "Keep "
            \o (IF GenStep.maneuver.modifier = None THEN "left" ELSE GenStep.maneuver.modifier[1])
            \o " at the fork" \o GenStreetClause \o " for " \o GenDistance

\* C18 witness: a fork without modifier on a named road.
C18_Witness ==
    /\ GenCalled
    /\ GenKind = Some("fork")
    /\ GenStep.maneuver.modifier = None
    /\ GenStep.name = Some("High Street")
    /\ GenStep.ref_ = None
    /\ ~text_call.use_miles
    /\ text_call.out = "Keep left at the fork on High Street for 1.5 km"

\* C19: a depart reads "Head <bearing_to_direction(bearing_after)>
\* [streetInfo] for <formatDistance>"; without bearing_after it starts
\* "Head straight".
C19_DepartHeadsDirection ==
    (GenCalled /\ GenKind = Some("depart")) =>
        /\ text_call.out = "Head " \o GenDirection \o GenStreetClause \o " for " \o GenDistance
        /\ GenStep.maneuver.bearing_after = None =>
               text_call.out = "Head straight" \o GenStreetClause \o " for " \o GenDistance
        /\ GenStep.maneuver.bearing_after = Some(440) =>
               text_call.out = "Head northeast" \o GenStreetClause \o " for " \o GenDistance

\* C19 witness: a depart without bearing_after on a road with name and ref.
C19_Witness ==
    /\ GenCalled
    /\ GenKind = Some("depart")
    /\ GenStep.maneuver.bearing_after = None
    /\ text_call.use_miles
    /\ text_call.out = "Head straight on High Street (A40) for 0.1 mi"

\* C20: a step whose maneuver kind is absent, or is none of depart, turn,
\* merge, ramp, fork, roundabout and arrive, reads "Continue [streetInfo]
\* for <formatDistance>".
C20_FallbackContinue ==
    (/\ GenCalled
     /\ GenKind \notin {Some("depart"), Some("turn"), Some("merge"), Some("ramp"),
                        Some("fork"), Some("roundabout"), Some("arrive")}) =>
        text_call.out = "Continue" \o GenStreetClause \o " for " \o GenDistance

\* C20 witness: a step without maneuver kind, with a modifier and a
\* bearing that the fallback leaves out.
C20_Witness ==
    /\ GenCalled
    /\ GenKind = None
    /\ GenStep.maneuver.modifier = Some("sharp left")
    /\ GenStep.maneuver.bearing_after = Some(440)
    /\ GenStep.name = None
    /\ GenStep.ref_ = None
    /\ ~text_call.use_miles
    /\ text_call.out = "Continue for 200 m"

----------------------------------------------------------------------------
(* Claims about the Route that calculate_route returns *)

\* The candidates the provider sent, best first.
Candidates == route_call.body[1].routes

\* C21: on success calculate_route builds the Route from the first
\* candidate of the provider's routes array only: its distance and duration
\* are that candidate's, unchanged under either unit preference, and its
\* geometry and instructions are made from that candidate's.
C21_FirstCandidateVerbatim ==
    (RouteReturned /\ is_ok(RouteResult)) =>
        /\ RouteResult[2].distance = Candidates[1].distance
        /\ RouteResult[2].duration = Candidates[1].duration
        /\ RouteResult[2].geometry = GeometryToString(Candidates[1].geometry)
        /\ Len(RouteResult[2].instructions)
               = StepsBefore(Candidates[1].legs, Len(Candidates[1].legs) + 1)

\* C21 witness: two candidates of different distance and duration, asked
\* for in miles; the Route has the metres and seconds of the first.
C21_Witness ==
    /\ RouteReturned
    /\ is_ok(RouteResult)
    /\ route_call.use_miles
    /\ Len(Candidates) = 2
    /\ Candidates[1].distance = 200000
    /\ Candidates[2].distance = 150000
    /\ Candidates[1].duration # Candidates[2].duration
    /\ RouteResult[2].distance = 200000
    /\ RouteResult[2].duration = 180

----------------------------------------------------------------------------
(* Claims about the callers of the store *)

\* Caller c is inside a block that holds the guard of the store.
InGuardedBlock(c) ==
    callers[c].pc \in {"push", "set", "evict", "current", "history", "unlock"}

\* What caller c has read of the store under its guard: the current
\* location and the history (its length and last entry).
HasObserved(c) == callers[c].pc = "unlock" /\ callers[c].seen # None

Observed(c) == callers[c].seen[1]

\* C22: under any interleaving of the callers, every access to the store is
\* made by the holder of its one lock, so an update (append, set current,
\* evict) is atomic: no caller observes a history longer than 100 entries or
\* a history whose last entry differs from the current location.
C22_StoreAccessUnderOneLock ==
    /\ \A c \in Callers : InGuardedBlock(c) => mutex = Some(c)
    /\ \A c \in Callers : HasObserved(c) =>
          /\ Observed(c).len <= 100
          /\ Observed(c).last = Observed(c).current
    /\ mutex = None =>
          /\ Len(location_history) <= 100
          /\ current_location =
                 IF location_history = <<>> THEN None
                 ELSE Some(location_history[Len(location_history)])

\* C22 witness: the reader has observed a full history whose last entry is
\* the current location, while the writer waits for the lock with a newer
\* fix in hand.
C22_Witness ==
    /\ HasObserved("route_button")
    /\ Observed("route_button").len = 100
    /\ Observed("route_button").last = Observed("route_button").current
    /\ Len(updates) > 100
    /\ callers["location_button"].pc = "lock_update"
    /\ callers["location_button"].location # Observed("route_button").current
    /\ mutex = Some("route_button")

----------------------------------------------------------------------------
(* Claims about the status of the geocoding provider *)

\* The geocoding provider answered with a non-success HTTP status and the
\* call has come to its end.
GeocodeNonSuccessAnswered ==
    /\ geocode_call.status # None
    /\ ~is_success(geocode_call.status[1])
    /\ geocode_call.pc \in {"done", "panicked"}

\* C26: a non-success HTTP status from the geocoding provider makes geocode
\* fail with ProviderError, as calculate_route does for the routing provider.
C26_GeocodeNonSuccessProviderError ==
    GeocodeNonSuccessAnswered =>
        /\ geocode_call.result # None
        /\ FailsWith(geocode_call.result[1], "ProviderError")

----------------------------------------------------------------------------
(* Claims about the requests of the shell *)

\* A result of calculate_route is an error or a Route with all of its
\* parts: distance, duration, geometry and one instruction per step.
CompleteResult(result) ==
    \/ is_err(result)
    \/ /\ is_ok(result)
       /\ DOMAIN result[2] = {"distance", "duration", "geometry", "instructions"}
       /\ route_call.body # None
       /\ Len(result[2].instructions)
              = StepsBefore(Candidates[1].legs, Len(Candidates[1].legs) + 1)

\* The step drops a suspended calculate_route or geocode call.
AbandonStep ==
    \/ route_call.pc # "dropped" /\ route_call'.pc = "dropped"
    \/ geocode_call.pc # "dropped" /\ geocode_call'.pc = "dropped"

\* C23: abandoning a suspended geocode or calculate_route call at any of its
\* suspension points leaves the store exactly as it was and makes no partial
\* Route observable: the caller has a complete Route, an error, or (when the
\* call was abandoned) nothing.
C23_AbandonLeavesNothingBehind ==
    /\ [](/\ route_call.result # None => CompleteResult(route_call.result[1])
          /\ route_call.pc = "dropped" =>
                 /\ route_call.result = None
                 /\ route_request.pc = "abandoned"
                 /\ route_request.shown = None
          /\ route_request.shown # None =>
                 (route_call.pc = "done" /\ is_ok(route_call.result[1]))
          /\ geocode_call.pc = "dropped" => geocode_call.result = None)
    /\ [][AbandonStep => UNCHANGED storeVars]_vars

\* C23 witness: a calculate_route call dropped while its body was awaited
\* and a geocode call dropped as well, the store holding both of its fixes.
C23_Witness ==
    /\ route_request.pc = "abandoned"
    /\ route_request.abandoned_at = Some("json")
    /\ route_call.pc = "dropped"
    /\ route_call.result = None
    /\ geocode_call.pc = "dropped"
    /\ Len(location_history) = 2
    /\ current_location = Some(location_history[2])

\* The step belongs to the routing path: a calculate_route call, a geocode
\* call or the request that drives them moves.
RoutingStep ==
    \/ route_call' # route_call
    \/ geocode_call' # geocode_call
    \/ route_request' # route_request

\* C24: the routing path never touches the store: a geocode or
\* calculate_route step, successful or failing, leaves current_location
\* and location_history unchanged; they change in an update only.
C24_RoutingLeavesStoreAlone ==
    /\ [][RoutingStep => UNCHANGED <<current_location, location_history>>]_vars
    /\ [][<<current_location, location_history>>' # <<current_location, location_history>>
             => /\ Len(updates') = Len(updates) + 1
                /\ current_location' = Some(updates'[Len(updates')])]_vars

\* C24 witness: a route was returned and shown, a geocode call returned its
\* locations, and the store holds the one fix taken before them.
C24_Witness ==
    /\ RouteReturned
    /\ is_ok(RouteResult)
    /\ route_request.pc = "shown"
    /\ geocode_call.pc = "done"
    /\ is_ok(geocode_call.result[1])
    /\ Len(geocode_call.result[1][2]) = 1
    /\ Len(updates) = 1
    /\ location_history = updates
    /\ current_location = Some(updates[1])

\* The unit a text ends in: miles, or a metric unit.
EndsInMiles(text) == Suffix(text, 3) = " mi"

EndsInMetric(text) == Suffix(text, 3) = " km" \/ (Suffix(text, 2) = " m" /\ ~EndsInMiles(text))

\* The texts of the shown route that carry a distance: the distance part of
\* the summary and every direction label but the arrival.
ShownSummaryDistance ==
    LET summary == route_request.shown[1].summary
        comma == CHOOSE i \in 1..Len(summary) : SubSeq(summary, i, i) = ","
    IN  SubSeq(summary, 1, comma - 1)

ShownDistanceLabels ==
    LET directions == route_request.shown[1].directions IN
    {directions[i] : i \in {j \in 1..Len(directions) :
                               Suffix(directions[j], Len(ArriveText)) # ArriveText}}

\* C27: within one route calculation of the shell the unit preference is read
\* from the shared toggle once, and that one value makes every instruction
\* text and the route summary: toggling the units while the request is in
\* flight never gives a result that mixes units.
C27_UnitPreferenceReadOnce ==
    /\ route_call.pc \notin {"idle", "dropped"} =>
           (route_request.use_miles_val = Some(route_call.use_miles))
    /\ route_request.shown # None =>
           IF route_request.use_miles_val[1]
           THEN /\ EndsInMiles(ShownSummaryDistance)
                /\ \A text \in ShownDistanceLabels : EndsInMiles(text)
           ELSE /\ EndsInMetric(ShownSummaryDistance)
                /\ \A text \in ShownDistanceLabels : EndsInMetric(text)

\* C27 witness: the route was asked for in miles, the toggle was switched
\* to kilometres while the request was in flight, and the shown route reads
\* in miles throughout.
C27_Witness ==
    /\ route_request.pc = "shown"
    /\ route_request.use_miles_val = Some(TRUE)
    /\ use_miles_shared = FALSE
    /\ route_request.shown[1].summary = "Route: 1.2 mi, 3 min"
    /\ route_request.shown[1].directions
           = <<"1. Head east on High Street for 0.3 mi", "2. Turn left for 0.9 mi">>

----------------------------------------------------------------------------
(* Claims about distance_to *)

DistanceCalled == distance_call.called

DistanceSelf == distance_call.self[1]

DistanceOther == distance_call.other[1]

SameCoordinate(a, b) == a.latitude = b.latitude /\ a.longitude = b.longitude

\* C25: distance_to is symmetric, distance(a, b) = distance(b, a) for every
\* pair of coordinates, and distance(a, a) = 0 for every coordinate; it is
\* the haversine distance on a sphere of radius 6371000 m (London to Paris
\* lies between 300 km and 400 km).
C25_DistanceSymmetricAndZeroOnSelf ==
    DistanceCalled =>
        /\ distance_call.out = distance_to(DistanceOther, DistanceSelf)
        /\ SameCoordinate(DistanceSelf, DistanceOther) => distance_call.out = 0
        /\ distance_call.out >= 0
        /\ (/\ DistanceSelf.latitude = 515074 /\ DistanceSelf.longitude = -1278
            /\ DistanceOther.latitude = 488566 /\ DistanceOther.longitude = 23522) =>
               (distance_call.out > 300000 /\ distance_call.out < 400000)

\* C25 witness: the distance from Paris to London, two places of different
\* latitude and longitude, some 344 km.
C25_Witness ==
    /\ DistanceCalled
    /\ DistanceSelf.latitude = 488566 /\ DistanceSelf.longitude = 23522
    /\ DistanceOther.latitude = 515074 /\ DistanceOther.longitude = -1278
    /\ distance_call.out > 340000
    /\ distance_call.out < 348000
    /\ distance_call.out = distance_to(DistanceOther, DistanceSelf)

----------------------------------------------------------------------------
(* Further claims about the instruction text and the instructions *)

\* The text has two spaces in a row.
HasDoubleSpace(text) == \E i \in 1..(Len(text) - 1) : SubSeq(text, i, i + 1) = "  "

\* The text starts or ends with a space.
HasOuterSpace(text) ==
    Len(text) > 0 /\ (SubSeq(text, 1, 1) = " " \/ SubSeq(text, Len(text), Len(text)) = " ")

\* C28: for every step (any maneuver kind, modifier present or absent, name
\* and ref present or absent) and either unit preference, the instruction
\* text has no two consecutive spaces and no leading or trailing space.
C28_NoDoubleOrOuterSpace ==
    GenCalled => (~HasDoubleSpace(text_call.out) /\ ~HasOuterSpace(text_call.out))

\* The steps of the first candidate in the order the provider sent them.
FirstSteps == Concat([l \in 1..Len(FirstLegs) |-> FirstLegs[l].steps])

\* C29: each RouteInstruction carries the data of its own step: its distance
\* and duration are the step's, its latitude is the second and its longitude
\* the first element of the step's maneuver location pair [lng, lat].
C29_InstructionCarriesItsStep ==
    (RouteReturned /\ is_ok(RouteResult)) =>
        \A i \in 1..Len(RouteResult[2].instructions) :
            LET instruction == RouteResult[2].instructions[i]
                step == FirstSteps[i]
            IN  /\ instruction.distance = step.distance
                /\ instruction.duration = step.duration
                /\ instruction.location.latitude = step.maneuver.location[2]
                /\ instruction.location.longitude = step.maneuver.location[1]

\* C29 witness: a route of a turn step followed by a depart step; the two
\* instructions carry the two different distances, durations and places.
C29_Witness ==
    /\ RouteReturned
    /\ is_ok(RouteResult)
    /\ Len(RouteResult[2].instructions) = 2
    /\ RouteResult[2].instructions[1].distance = 150000
    /\ RouteResult[2].instructions[1].duration = 120
    /\ RouteResult[2].instructions[1].location.latitude = 514994
    /\ RouteResult[2].instructions[1].location.longitude = -1245
    /\ RouteResult[2].instructions[2].distance = 50000
    /\ RouteResult[2].instructions[2].duration = 60
    /\ RouteResult[2].instructions[2].location.latitude = 515074
    /\ RouteResult[2].instructions[2].location.longitude = -1278

\* C30: in metric mode a distance below 1000 m is rendered as a whole number
\* of metres between 0 and 999 with the suffix " m"; the text never reads
\* "1000 m".
C30_Below1000NeverReads1000 ==
    (FormatCalled /\ ~text_call.use_miles /\ text_call.meters < 100000) =>
        /\ text_call.out # "1000 m"
        /\ \E n \in 0..999 : text_call.out = ToString(n) \o " m"

====
